---- MODULE Spec2Model ----
(***************************************************************************)
(* Win-probability predictor (newapp/predictor/model.py) as a TLA+ model.  *)
(*                                                                         *)
(* Numbers.  The Python code computes in IEEE doubles; the model computes  *)
(* in exact integers wherever the quantity is rational with a small        *)
(* denominator and in fixed point (Scale = 10^4, round half away from      *)
(* zero) elsewhere:                                                        *)
(*   - times are whole seconds (minutes * 60);                             *)
(*   - scores and box-score counts are integers, spreads are half points,  *)
(*     possessions are hundredths (0.44 * FTA);                            *)
(*   - a factor weight is the rational weight / wden; raw weights have     *)
(*     wden = WDen, normalized weights have wden = the active total, so    *)
(*     weight arithmetic is exact;                                         *)
(*   - advantages, the combined score and probabilities are fixed point;   *)
(*     tanh and exp are the library functions tabulated at steps of 1/16   *)
(*     and interpolated linearly, saturating where the exact value is      *)
(*     within half a unit of its limit.                                    *)
(***************************************************************************)
EXTENDS Integers, Sequences, FiniteSets, TLC

Scale == 10000

\* CONFIG (config.py DEFAULT_CONFIG).  Units: points in tenths, scales and
\* weights in hundredths, thresholds on advantages / probabilities / the
\* combined score in units of 1/Scale, sigmoid_k and ot_dampen_factor in
\* tenths, minutes and seconds as written.
CONFIG ==
  [ home_court_adjustment |-> 25,
    lead_scale |-> 15,
    spread_scale |-> 8,
    efficiency_scale |-> 5,
    sigmoid_k |-> 25,
    lead_weight_min |-> 20,
    lead_weight_max |-> 35,
    spread_base_weight |-> 40,
    efficiency_weight_full |-> 25,
    efficiency_weight_gated |-> 10,
    possession_edge_weight_full |-> 12,
    possession_edge_weight_gated |-> 5,
    efficiency_gate_minutes |-> 18,
    efficiency_gate_poss |-> 30,
    possession_edge_gate_minutes |-> 24,
    possession_edge_gate_poss |-> 40,
    trailing_edge_min_margin |-> 3,
    trailing_edge_factor_threshold |-> 1500,
    upset_min_minutes |-> 12,
    upset_win_prob_threshold |-> 4000,
    upset_flip_buffer_threshold |-> 800,
    upset_flip_swing_threshold |-> 40,
    blowout_lead_threshold |-> 20,
    blowout_minutes_threshold |-> 5,
    ot_dampen_factor |-> 8,
    possession_edge_scale |-> 4,
    stale_warning_sec |-> 120,
    stale_critical_sec |-> 300 ]

----------------------------------------------------------------------------
\* Integer helpers of the fixed-point arithmetic.

Abs(x) == IF x < 0 THEN -x ELSE x

Max(a, b) == IF a >= b THEN a ELSE b

Min(a, b) == IF a <= b THEN a ELSE b

Sgn(x) == IF x > 0 THEN 1 ELSE IF x < 0 THEN -1 ELSE 0

\* a / b rounded to the nearest integer, halves away from zero (b # 0).
RoundDiv(a, b) ==
  LET n == IF b < 0 THEN -a ELSE a
      d == Abs(b)
  IN  Sgn(n) * ((2 * Abs(n) + d) \div (2 * d))

RECURSIVE SqrtSearch(_, _, _)
SqrtSearch(x, lo, hi) ==
  IF lo >= hi THEN lo
  ELSE LET mid == (lo + hi + 1) \div 2
       IN  IF mid * mid <= x THEN SqrtSearch(x, mid, hi)
           ELSE SqrtSearch(x, lo, mid - 1)

\* floor(sqrt(x)) for 0 <= x < 2^30, by bisection.
ISqrt(x) == SqrtSearch(x, 0, 32767)

\* math.tanh at the grid points i/16, i = 0..96, in units of 1/Scale.
TanhTable ==
  <<
     0, 624, 1244, 1853, 2449, 3027, 3584, 4116, 4621, 5098, 5546, 5964,
     6351, 6710, 7039, 7341, 7616, 7866, 8093, 8298, 8483, 8649, 8798, 8932,
     9051, 9158, 9253, 9338, 9414, 9481, 9540, 9593, 9640, 9682, 9719, 9751,
     9780, 9806, 9828, 9848, 9866, 9882, 9896, 9908, 9919, 9928, 9937, 9944,
     9951, 9956, 9961, 9966, 9970, 9973, 9977, 9979, 9982, 9984, 9986, 9987,
     9989, 9990, 9991, 9992, 9993, 9994, 9995, 9995, 9996, 9996, 9997, 9997,
     9998, 9998, 9998, 9998, 9999, 9999, 9999, 9999, 9999, 9999, 9999, 9999,
     9999, 10000, 10000, 10000, 10000, 10000, 10000, 10000, 10000, 10000, 10000, 10000,
     10000 >>

\* math.tanh on a fixed-point argument: odd, non-decreasing, within
\* [-Scale, Scale]; beyond 6 the double result rounds to 1 at this scale.
tanh(x) ==
  LET a == Abs(x)
      i == a \div 625
      f == a % 625
  IN  IF a >= 6 * Scale THEN Sgn(x) * Scale
      ELSE Sgn(x) * (TanhTable[i + 1]
                     + RoundDiv((TanhTable[i + 2] - TanhTable[i + 1]) * f, 625))

\* math.exp at the grid points i/16, i = -128..128, in units of 1/Scale.
ExpTable ==
  <<
     3, 4, 4, 4, 4, 5, 5, 5, 6, 6, 6, 7,
     7, 8, 8, 9, 9, 10, 10, 11, 12, 12, 13, 14,
     15, 16, 17, 18, 19, 21, 22, 23, 25, 26, 28, 30,
     32, 34, 36, 38, 41, 44, 46, 49, 52, 56, 59, 63,
     67, 72, 76, 81, 87, 92, 98, 104, 111, 118, 126, 134,
     143, 152, 162, 172, 183, 195, 208, 221, 235, 250, 266, 284,
     302, 321, 342, 364, 388, 413, 439, 468, 498, 530, 564, 601,
     639, 681, 724, 771, 821, 874, 930, 990, 1054, 1122, 1194, 1271,
     1353, 1441, 1534, 1632, 1738, 1850, 1969, 2096, 2231, 2375, 2528, 2691,
     2865, 3050, 3247, 3456, 3679, 3916, 4169, 4437, 4724, 5028, 5353, 5698,
     6065, 6456, 6873, 7316, 7788, 8290, 8825, 9394, 10000, 10645, 11331, 12062,
     12840, 13668, 14550, 15488, 16487, 17551, 18682, 19887, 21170, 22535, 23989, 25536,
     27183, 28936, 30802, 32789, 34903, 37155, 39551, 42102, 44817, 47707, 50784, 54059,
     57546, 61257, 65208, 69414, 73891, 78656, 83729, 89129, 94877, 100996, 107510, 114444,
     121825, 129682, 138046, 146949, 156426, 166515, 177254, 188686, 200855, 213809, 227599, 242278,
     257903, 274537, 292243, 311091, 331155, 352512, 375247, 399449, 425211, 452635, 481827, 512902,
     545982, 581194, 618678, 658579, 701054, 746268, 794398, 845633, 900171, 958227, 1020028, 1085814,
     1155843, 1230388, 1309742, 1394213, 1484132, 1579850, 1681741, 1790204, 1905663, 2028567, 2159399, 2298668,
     2446919, 2604732, 2772723, 2951548, 3141907, 3344542, 3560247, 3789863, 4034288, 4294477, 4571447, 4866280,
     5180128, 5514218, 5869854, 6248427, 6651416, 7080396, 7537042, 8023140, 8540588, 9091408, 9677754, 10301915,
     10966332, 11673599, 12426482, 13227921, 14081048, 14989198, 15955918, 16984987, 18080424, 19246511, 20487805, 21809155,
     23215724, 24713010, 26306862, 28003509, 29809580 >>

\* Largest argument (units of 1/Scale) math.exp accepts: above
\* ln(DBL_MAX) = 709.78... it raises OverflowError("math range error").
ExpMaxArg == 7097827

ExpOverflows(y) == y > ExpMaxArg

\* math.exp on a fixed-point argument that does not overflow.  Below -8 the
\* value is under half a unit; above 8 it is so large that 1 / (1 + e) is
\* under half a unit, which is all its one caller uses it for.
exp(y) ==
  LET z == y + 8 * Scale
      i == z \div 625
      f == z % 625
  IN  IF y < -8 * Scale THEN 0
      ELSE IF y >= 8 * Scale THEN 1000000000
      ELSE ExpTable[i + 1]
           + RoundDiv((ExpTable[i + 2] - ExpTable[i + 1]) * f, 625)

----------------------------------------------------------------------------
\* Clock strings.  A Python str is a sequence of one-character strings; the
\* absent clock (Python None) is the distinguished value NoClock.

NoClock == << "None" >>

Digits == {"0", "1", "2", "3", "4", "5", "6", "7", "8", "9"}

DigitSeq == << "0", "1", "2", "3", "4", "5", "6", "7", "8", "9" >>

DigitVal(c) == (CHOOSE i \in 1..10 : DigitSeq[i] = c) - 1

\* str.split(sep): the pieces of s between occurrences of the character sep.
RECURSIVE split(_, _)
split(s, sep) ==
  IF \A i \in 1..Len(s) : s[i] # sep THEN << s >>
  ELSE LET i == CHOOSE j \in 1..Len(s) :
                  s[j] = sep /\ \A k \in 1..(j - 1) : s[k] # sep
       IN  << SubSeq(s, 1, i - 1) >> \o split(SubSeq(s, i + 1, Len(s)), sep)

\* str.strip() as int() applies it (blanks only).
RECURSIVE strip(_)
strip(s) ==
  IF s = << >> THEN s
  ELSE IF s[1] = " " THEN strip(Tail(s))
  ELSE IF s[Len(s)] = " " THEN strip(SubSeq(s, 1, Len(s) - 1))
  ELSE s

RECURSIVE DigitsValue(_)
DigitsValue(ds) ==
  IF ds = << >> THEN 0
  ELSE 10 * DigitsValue(SubSeq(ds, 1, Len(ds) - 1)) + DigitVal(ds[Len(ds)])

\* int(s) succeeds: optional blanks, optional sign, one or more digits.
IntParses(s) ==
  LET t == strip(s)
      u == IF t # << >> /\ t[1] \in {"+", "-"} THEN Tail(t) ELSE t
  IN  u # << >> /\ \A i \in 1..Len(u) : u[i] \in Digits

\* int(s) when it succeeds (otherwise ValueError).
int(s) ==
  LET t == strip(s)
  IN  IF t[1] = "-" THEN -DigitsValue(Tail(t))
      ELSE IF t[1] = "+" THEN DigitsValue(Tail(t))
      ELSE DigitsValue(t)

\* parse_clock: ok = FALSE stands for the None result.
parse_clock(clock_str) ==
  IF clock_str = NoClock \/ clock_str = << >>
  THEN [ok |-> FALSE, minutes |-> 0, seconds |-> 0]
  ELSE LET parts == split(clock_str, ":")
           sec_part == IF Len(parts) > 1 THEN split(parts[2], ".")[1]
                       ELSE << "0" >>
       IN  IF IntParses(parts[1]) /\ IntParses(sec_part)
           THEN [ok |-> TRUE, minutes |-> int(parts[1]),
                 seconds |-> int(sec_part)]
           ELSE [ok |-> FALSE, minutes |-> 0, seconds |-> 0]

\* A plausible slip: overtime counts the current period as already played.
calc_time_values_ot_off_by_one(quarter, clock_minutes, clock_seconds) ==
  LET clock == 60 * clock_minutes + clock_seconds
  IN  IF quarter <= 4
      THEN LET minutes_remaining == Max(0, (4 - quarter) * 12 * 60 + clock)
           IN  [minutes_remaining |-> minutes_remaining,
                minutes_played |-> 48 * 60 - minutes_remaining]
      ELSE LET ot_period == quarter - 4
               ot_clock_elapsed == 5 * 60 - clock
           IN  [minutes_remaining |-> Max(0, 5 * 60 - ot_clock_elapsed),
                minutes_played |->
                  48 * 60 + ot_period * 5 * 60 + ot_clock_elapsed]

\* A plausible slip: overtime adds the clock instead of the time elapsed.
calc_time_values_ot_clock(quarter, clock_minutes, clock_seconds) ==
  LET clock == 60 * clock_minutes + clock_seconds
  IN  IF quarter <= 4
      THEN LET minutes_remaining == Max(0, (4 - quarter) * 12 * 60 + clock)
           IN  [minutes_remaining |-> minutes_remaining,
                minutes_played |-> 48 * 60 - minutes_remaining]
      ELSE LET ot_period == quarter - 4
               ot_clock_elapsed == 5 * 60 - clock
           IN  [minutes_remaining |-> Max(0, 5 * 60 - ot_clock_elapsed),
                minutes_played |-> 48 * 60 + (ot_period - 1) * 5 * 60 + clock]

\* calc_time_values; both results in seconds (minutes * 60).
calc_time_values(quarter, clock_minutes, clock_seconds) ==
  LET clock == 60 * clock_minutes + clock_seconds
  IN  IF quarter <= 4
      THEN LET minutes_remaining == Max(0, (4 - quarter) * 12 * 60 + clock)
           IN  [minutes_remaining |-> minutes_remaining,
                minutes_played |-> 48 * 60 - minutes_remaining]
      ELSE LET ot_period == quarter - 4
               ot_clock_elapsed == 5 * 60 - clock
           IN  [minutes_remaining |-> Max(0, 5 * 60 - ot_clock_elapsed),
                minutes_played |->
                  48 * 60 + (ot_period - 1) * 5 * 60 + ot_clock_elapsed]

----------------------------------------------------------------------------
\* Possession and shooting primitives.

\* calc_possessions, in hundredths of a possession.
calc_possessions(fga, fta, tov, orb) ==
  LET poss == 100 * fga + 44 * fta + 100 * tov - 100 * orb
  IN  Max(poss, 100)

\* calc_efg, in units of 1/Scale.
calc_efg(fgm, fg3m, fga) ==
  IF fga = 0 THEN 0
  ELSE RoundDiv(Scale * (2 * fgm + fg3m), 2 * fga)

----------------------------------------------------------------------------
\* Factor calculators.  A FactorResult is a record; its weight is the
\* rational weight / wden.  raw_value only feeds the display and is left out.

\* Denominator of raw weights: a hundredth is 192 units, so that the lead
\* weight, which moves by 0.15 / 2880 per second played, is an integer.
WDen == 19200

\* A CONFIG weight (hundredths) in units of 1 / WDen.
W(hundredths) == hundredths * (WDen \div 100)

FactorResult(name, advantage, weight, active, gated) ==
  [name |-> name, advantage |-> advantage, weight |-> weight, wden |-> WDen,
   active |-> active, gated |-> gated]

\* sqrt(minutes_remaining + 1) in units of 1/600, minutes_remaining in seconds.
SqrtMinutesPlusOne(minutes_remaining) ==
  ISqrt(6000 * (minutes_remaining + 60))

\* A plausible slip: game_progress is not capped at 1.
calc_lead_advantage_uncapped(home_score, away_score, minutes_remaining, minutes_played) ==
  LET raw_lead == home_score - away_score
      adjusted_lead == 10 * raw_lead - CONFIG.home_court_adjustment
      scaled == RoundDiv(((6 * Scale) \div 10) * CONFIG.lead_scale * adjusted_lead,
                         SqrtMinutesPlusOne(minutes_remaining))
      lead_advantage == tanh(scaled)
      game_progress == minutes_played
      lead_base_weight ==
        W(CONFIG.lead_weight_min)
        + (W(CONFIG.lead_weight_max - CONFIG.lead_weight_min) * game_progress)
          \div (48 * 60)
  IN  FactorResult("lead", lead_advantage, lead_base_weight, TRUE, "None")

calc_lead_advantage(home_score, away_score, minutes_remaining, minutes_played) ==
  LET raw_lead == home_score - away_score
      adjusted_lead == 10 * raw_lead - CONFIG.home_court_adjustment
      \* lead_score * lead_scale = adjusted_lead / 10 * lead_scale / 100
      \*                           / (root / 600), in units of 1/Scale
      scaled == RoundDiv(((6 * Scale) \div 10) * CONFIG.lead_scale * adjusted_lead,
                         SqrtMinutesPlusOne(minutes_remaining))
      lead_advantage == tanh(scaled)
      \* game_progress = min(1.0, minutes_played / 48), in seconds of 2880
      game_progress == Min(48 * 60, minutes_played)
      lead_base_weight ==
        W(CONFIG.lead_weight_min)
        + (W(CONFIG.lead_weight_max - CONFIG.lead_weight_min) * game_progress)
          \div (48 * 60)
  IN  FactorResult("lead", lead_advantage, lead_base_weight, TRUE, "None")

\* Optional[float] values: the spread is counted in half points.
None == [some |-> FALSE, v |-> 0]

Some(x) == [some |-> TRUE, v |-> x]

\* A plausible slip: the sign conversion of the spread is dropped.
calc_spread_advantage_sign(spread) ==
  IF spread.some
  THEN LET spread_advantage ==
             tanh(RoundDiv(spread.v * CONFIG.spread_scale * Scale, 200))
       IN  FactorResult("spread", spread_advantage,
                        W(CONFIG.spread_base_weight), TRUE, "None")
  ELSE FactorResult("spread", 0, 0, FALSE, "None")

\* A plausible slip: the bounding transform is left out.
calc_spread_advantage_linear(spread) ==
  IF spread.some
  THEN LET spread_advantage ==
             RoundDiv(spread.v * (-CONFIG.spread_scale) * Scale, 200)
       IN  FactorResult("spread", spread_advantage,
                        W(CONFIG.spread_base_weight), TRUE, "None")
  ELSE FactorResult("spread", 0, 0, FALSE, "None")

\* A plausible slip: the spread is tested for truth, so a spread of 0 (a
\* pick'em line) is taken for an absent one.
calc_spread_advantage_truthy(spread) ==
  IF spread.some /\ spread.v # 0
  THEN LET spread_advantage ==
             tanh(RoundDiv(spread.v * (-CONFIG.spread_scale) * Scale, 200))
       IN  FactorResult("spread", spread_advantage,
                        W(CONFIG.spread_base_weight), TRUE, "None")
  ELSE FactorResult("spread", 0, 0, FALSE, "None")

calc_spread_advantage(spread) ==
  IF spread.some
  THEN \* spread / 2 * -spread_scale / 100, in units of 1/Scale
       LET spread_advantage ==
             tanh(RoundDiv(spread.v * (-CONFIG.spread_scale) * Scale, 200))
       IN  FactorResult("spread", spread_advantage,
                        W(CONFIG.spread_base_weight), TRUE, "None")
  ELSE FactorResult("spread", 0, 0, FALSE, "None")

calc_efficiency_advantage(home_stats, away_stats, home_season, away_season, minutes_played) ==
  LET home_poss == calc_possessions(home_stats.fga, home_stats.fta,
                                    home_stats.tov, home_stats.orb)
      away_poss == calc_possessions(away_stats.fga, away_stats.fta,
                                    away_stats.tov, away_stats.orb)
      home_efg == calc_efg(home_stats.fgm, home_stats.fg3m, home_stats.fga)
      away_efg == calc_efg(away_stats.fgm, away_stats.fg3m, away_stats.fga)
      home_eff_delta == home_efg - home_season.efg
      away_eff_delta == away_efg - away_season.efg
      efficiency_advantage ==
        tanh((home_eff_delta - away_eff_delta) * CONFIG.efficiency_scale)
      min_poss == Min(home_poss, away_poss)
      is_gated == \/ minutes_played < CONFIG.efficiency_gate_minutes * 60
                  \/ min_poss < CONFIG.efficiency_gate_poss * 100
  IN  IF is_gated
      THEN FactorResult("efficiency", efficiency_advantage,
                        W(CONFIG.efficiency_weight_gated), TRUE, "True")
      ELSE FactorResult("efficiency", efficiency_advantage,
                        W(CONFIG.efficiency_weight_full), TRUE, "False")

\* A plausible slip: the gate of the possession edge reads the thresholds of
\* the efficiency factor.
calc_possession_edge_advantage_efficiency_gate(home_stats, away_stats, minutes_played) ==
  LET home_poss == calc_possessions(home_stats.fga, home_stats.fta,
                                    home_stats.tov, home_stats.orb)
      away_poss == calc_possessions(away_stats.fga, away_stats.fta,
                                    away_stats.tov, away_stats.orb)
      total_poss == Max(home_poss + away_poss, 100)
      extra_poss == (away_stats.tov - home_stats.tov)
                    + (home_stats.orb - away_stats.orb)
      advantage == tanh(RoundDiv(100 * extra_poss * CONFIG.possession_edge_scale
                                 * Scale, total_poss))
      min_poss == Min(home_poss, away_poss)
      is_gated == \/ minutes_played < CONFIG.efficiency_gate_minutes * 60
                  \/ min_poss < CONFIG.efficiency_gate_poss * 100
  IN  IF is_gated
      THEN FactorResult("possession_edge", advantage,
                        W(CONFIG.possession_edge_weight_gated), TRUE, "True")
      ELSE FactorResult("possession_edge", advantage,
                        W(CONFIG.possession_edge_weight_full), TRUE, "False")

calc_possession_edge_advantage(home_stats, away_stats, minutes_played) ==
  LET home_poss == calc_possessions(home_stats.fga, home_stats.fta,
                                    home_stats.tov, home_stats.orb)
      away_poss == calc_possessions(away_stats.fga, away_stats.fta,
                                    away_stats.tov, away_stats.orb)
      total_poss == Max(home_poss + away_poss, 100)
      extra_poss == (away_stats.tov - home_stats.tov)
                    + (home_stats.orb - away_stats.orb)
      \* poss_edge_rate * possession_edge_scale, in units of 1/Scale
      advantage == tanh(RoundDiv(100 * extra_poss * CONFIG.possession_edge_scale
                                 * Scale, total_poss))
      min_poss == Min(home_poss, away_poss)
      is_gated == \/ minutes_played < CONFIG.possession_edge_gate_minutes * 60
                  \/ min_poss < CONFIG.possession_edge_gate_poss * 100
  IN  IF is_gated
      THEN FactorResult("possession_edge", advantage,
                        W(CONFIG.possession_edge_weight_gated), TRUE, "True")
      ELSE FactorResult("possession_edge", advantage,
                        W(CONFIG.possession_edge_weight_full), TRUE, "False")

----------------------------------------------------------------------------
\* Sums over a factor list (Python's sum(... for f in factors if ...)).

RECURSIVE SumWeights(_, _)
SumWeights(factors, activeOnly) ==
  IF factors = << >> THEN 0
  ELSE (IF activeOnly /\ ~factors[1].active THEN 0 ELSE factors[1].weight)
       + SumWeights(Tail(factors), activeOnly)

RECURSIVE SumContrib(_, _)
\* sum(f.weight * f.advantage) over the active factors whose name is not
\* `except`, as a numerator over the factors' common wden.
SumContrib(factors, except) ==
  IF factors = << >> THEN 0
  ELSE (IF factors[1].active /\ factors[1].name # except
        THEN factors[1].weight * factors[1].advantage ELSE 0)
       + SumContrib(Tail(factors), except)

ActiveFactors(factors) == SelectSeq(factors, LAMBDA f : f.active)

\* The denominator the active weights share (raw: WDen; normalized: total).
ActiveDen(factors) ==
  IF ActiveFactors(factors) = << >> THEN WDen
  ELSE ActiveFactors(factors)[1].wden

\* A plausible slip: the total is taken over all factors, active or not.
normalize_weights_all(factors) ==
  LET total == SumWeights(factors, FALSE)
  IN  IF total = 0 THEN factors
      ELSE [i \in 1..Len(factors) |->
              IF factors[i].active
              THEN [factors[i] EXCEPT !.weight = Sgn(total) * factors[i].weight,
                                      !.wden = Abs(total)]
              ELSE factors[i]]

normalize_weights(factors) ==
  LET total == SumWeights(factors, TRUE)
  IN  IF total = 0 THEN factors
      ELSE [i \in 1..Len(factors) |->
              IF factors[i].active
              THEN \* weight / total, kept with a positive denominator
                   [factors[i] EXCEPT !.weight = Sgn(total) * factors[i].weight,
                                      !.wden = Abs(total)]
              ELSE factors[i]]

\* A plausible slip: the overtime dampening is left out.
calc_combined_score_undampened(factors, is_overtime) ==
  RoundDiv(SumContrib(factors, "-"), ActiveDen(factors))

calc_combined_score(factors, is_overtime) ==
  LET combined == RoundDiv(SumContrib(factors, "-"), ActiveDen(factors))
  IN  IF is_overtime
      THEN RoundDiv(combined * CONFIG.ot_dampen_factor, 10)
      ELSE combined

\* A plausible slip: the odds exp(k * combined) returned as the probability.
calc_win_probability_odds(combined) ==
  LET k == CONFIG.sigmoid_k
      y == RoundDiv(-k * combined, 10)
      win_prob_home == exp(-y)
      win_prob_away == Scale - win_prob_home
  IN  IF ExpOverflows(y)
      THEN [raised |-> TRUE, win_prob_home |-> 0, win_prob_away |-> 0]
      ELSE [raised |-> FALSE, win_prob_home |-> win_prob_home,
            win_prob_away |-> win_prob_away]

\* calc_win_probability: raised = TRUE when math.exp raises OverflowError.
calc_win_probability(combined) ==
  LET k == CONFIG.sigmoid_k
      y == RoundDiv(-k * combined, 10)
      win_prob_home == RoundDiv(Scale * Scale, Scale + exp(y))
      win_prob_away == Scale - win_prob_home
  IN  IF ExpOverflows(y)
      THEN [raised |-> TRUE, win_prob_home |-> 0, win_prob_away |-> 0]
      ELSE [raised |-> FALSE, win_prob_home |-> win_prob_home,
            win_prob_away |-> win_prob_away]

\* A plausible slip: the lead threshold made exclusive.
check_blowout_exclusive(home_score, away_score, minutes_remaining) ==
  LET raw_lead == home_score - away_score
  IN  IF /\ Abs(raw_lead) > CONFIG.blowout_lead_threshold
         /\ minutes_remaining <= CONFIG.blowout_minutes_threshold * 60
      THEN IF raw_lead > 0
           THEN [is_blowout |-> TRUE, win_prob_home |-> 9900,
                 win_prob_away |-> 100]
           ELSE [is_blowout |-> TRUE, win_prob_home |-> 100,
                 win_prob_away |-> 9900]
      ELSE [is_blowout |-> FALSE, win_prob_home |-> 0, win_prob_away |-> 0]

check_blowout(home_score, away_score, minutes_remaining) ==
  LET raw_lead == home_score - away_score
  IN  IF /\ Abs(raw_lead) >= CONFIG.blowout_lead_threshold
         /\ minutes_remaining <= CONFIG.blowout_minutes_threshold * 60
      THEN IF raw_lead > 0
           THEN [is_blowout |-> TRUE, win_prob_home |-> 9900,
                 win_prob_away |-> 100]
           ELSE [is_blowout |-> TRUE, win_prob_home |-> 100,
                 win_prob_away |-> 9900]
      ELSE [is_blowout |-> FALSE, win_prob_home |-> 0, win_prob_away |-> 0]

\* max / min of the advantages of a non-empty factor list.
RECURSIVE MaxAdvantage(_)
MaxAdvantage(fs) ==
  IF Len(fs) = 1 THEN fs[1].advantage
  ELSE Max(fs[1].advantage, MaxAdvantage(Tail(fs)))

RECURSIVE MinAdvantage(_)
MinAdvantage(fs) ==
  IF Len(fs) = 1 THEN fs[1].advantage
  ELSE Min(fs[1].advantage, MinAdvantage(Tail(fs)))

\* A plausible slip: the cap for a missing spread is forgotten.
calc_confidence_no_cap(factors, data_age_sec, minutes_played, spread_available) ==
  LET active == ActiveFactors(factors)
      factor_spread == MaxAdvantage(active) - MinAdvantage(active)
      all_same_sign ==
        \/ \A i \in 1..Len(active) : active[i].advantage >= 0
        \/ \A i \in 1..Len(active) : active[i].advantage <= 0
  IN  IF Len(active) = 0 THEN "Low"
      ELSE IF data_age_sec >= CONFIG.stale_critical_sec THEN "Low"
      ELSE IF factor_spread > 2000 THEN "Low"
      ELSE IF minutes_played < 12 * 60 THEN "Low"
      ELSE IF ~all_same_sign THEN "Medium"
      ELSE IF data_age_sec >= CONFIG.stale_warning_sec THEN "Medium"
      ELSE IF minutes_played < 24 * 60 THEN "Medium"
      ELSE "High"

\* calc_confidence; minutes_played in seconds.
calc_confidence(factors, data_age_sec, minutes_played, spread_available) ==
  LET active == ActiveFactors(factors)
      factor_spread == MaxAdvantage(active) - MinAdvantage(active)
      all_same_sign ==
        \/ \A i \in 1..Len(active) : active[i].advantage >= 0
        \/ \A i \in 1..Len(active) : active[i].advantage <= 0
      max_confidence == IF spread_available THEN "High" ELSE "Medium"
  IN  IF Len(active) = 0 THEN "Low"
      ELSE IF data_age_sec >= CONFIG.stale_critical_sec THEN "Low"
      ELSE IF factor_spread > 2000 THEN "Low"
      ELSE IF minutes_played < 12 * 60 THEN "Low"
      ELSE IF ~all_same_sign THEN "Medium"
      ELSE IF data_age_sec >= CONFIG.stale_warning_sec THEN "Medium"
      ELSE IF minutes_played < 24 * 60 THEN "Medium"
      ELSE max_confidence

\* A plausible slip: every factor is counted, active or not.
check_trailing_edge_counts_inactive(home_score, away_score, factors) ==
  LET trailing_team == IF home_score > away_score THEN "away" ELSE "home"
      trailing_sign == IF home_score > away_score THEN -1 ELSE 1
      lead_margin == Abs(home_score - away_score)
      factors_favoring_trailing ==
        Cardinality({i \in 1..Len(factors) :
                       factors[i].advantage * trailing_sign
                         >= CONFIG.trailing_edge_factor_threshold})
      show_alert == /\ lead_margin >= CONFIG.trailing_edge_min_margin
                    /\ factors_favoring_trailing >= 2
  IN  IF home_score = away_score
      THEN [trailing_team |-> "None", show_alert |-> FALSE]
      ELSE IF Len(ActiveFactors(factors)) = 0
      THEN [trailing_team |-> trailing_team, show_alert |-> FALSE]
      ELSE [trailing_team |-> trailing_team, show_alert |-> show_alert]

\* A plausible slip: trailing_sign is set for the leading team.
check_trailing_edge_leader_sign(home_score, away_score, factors) ==
  LET trailing_team == IF home_score > away_score THEN "away" ELSE "home"
      trailing_sign == IF home_score > away_score THEN 1 ELSE -1
      lead_margin == Abs(home_score - away_score)
      active == ActiveFactors(factors)
      factors_favoring_trailing ==
        Cardinality({i \in 1..Len(active) :
                       active[i].advantage * trailing_sign
                         >= CONFIG.trailing_edge_factor_threshold})
      show_alert == /\ lead_margin >= CONFIG.trailing_edge_min_margin
                    /\ factors_favoring_trailing >= 2
  IN  IF home_score = away_score
      THEN [trailing_team |-> "None", show_alert |-> FALSE]
      ELSE IF Len(active) = 0
      THEN [trailing_team |-> trailing_team, show_alert |-> FALSE]
      ELSE [trailing_team |-> trailing_team, show_alert |-> show_alert]

\* check_trailing_edge; trailing_team is "None" on a tie.
check_trailing_edge(home_score, away_score, factors) ==
  LET trailing_team == IF home_score > away_score THEN "away" ELSE "home"
      trailing_sign == IF home_score > away_score THEN -1 ELSE 1
      lead_margin == Abs(home_score - away_score)
      active == ActiveFactors(factors)
      factors_favoring_trailing ==
        Cardinality({i \in 1..Len(active) :
                       active[i].advantage * trailing_sign
                         >= CONFIG.trailing_edge_factor_threshold})
      show_alert == /\ lead_margin >= CONFIG.trailing_edge_min_margin
                    /\ factors_favoring_trailing >= 2
  IN  IF home_score = away_score
      THEN [trailing_team |-> "None", show_alert |-> FALSE]
      ELSE IF Len(active) = 0
      THEN [trailing_team |-> trailing_team, show_alert |-> FALSE]
      ELSE [trailing_team |-> trailing_team, show_alert |-> show_alert]

\* The clock string "0:00".
ZeroClock == << "0", ":", "0", "0" >>

\* A plausible slip: the pre-game test comes before the test for 'Final'.
get_game_status_period_first(status, period, clock) ==
  IF period = 0 \/ clock = NoClock THEN "pre_game"
  ELSE IF status = "Final" THEN "final"
  ELSE IF clock = ZeroClock /\ period \in {1, 3} THEN "between_quarters"
  ELSE IF clock = ZeroClock /\ period = 2 THEN "halftime"
  ELSE "in_progress"

get_game_status(status, period, clock) ==
  IF status = "Final" THEN "final"
  ELSE IF period = 0 \/ clock = NoClock THEN "pre_game"
  ELSE IF clock = ZeroClock /\ period \in {1, 3} THEN "between_quarters"
  ELSE IF clock = ZeroClock /\ period = 2 THEN "halftime"
  ELSE "in_progress"

----------------------------------------------------------------------------
\* The flip-lead solver and the underdog evaluators.  Leads that are not
\* whole points (flip_lead_home, flip_swing) are counted in units of
\* 1/Scale of a point.

\* math.atanh for |x| < 0.999, read off the grid of math.tanh: the segment
\* of the table that holds |x|, then linear interpolation within it.
atanh(x) ==
  LET a == Abs(x)
      i == CHOOSE j \in 0..61 : TanhTable[j + 1] <= a /\ a < TanhTable[j + 2]
  IN  Sgn(x) * (625 * i
                + RoundDiv((a - TanhTable[i + 1]) * 625,
                           TanhTable[i + 2] - TanhTable[i + 1]))

\* A plausible slip: the home-court adjustment is not added back.
calc_flip_lead_home_no_home_court(factors, minutes_remaining) ==
  LET leads == SelectSeq(factors, LAMBDA f : f.name = "lead")
      lead_factor == leads[1]
      other_contrib == SumContrib(factors, "lead")
      n == -other_contrib * Sgn(lead_factor.weight)
      d == Abs(lead_factor.weight)
      target_lead_adv == RoundDiv(n, d)
      adjusted_lead == RoundDiv(atanh(target_lead_adv)
                                  * SqrtMinutesPlusOne(minutes_remaining),
                                6 * CONFIG.lead_scale)
  IN  IF leads = << >> THEN None
      ELSE IF ~lead_factor.active \/ lead_factor.weight = 0 THEN None
      ELSE IF n <= -9990 * d \/ n >= 9990 * d THEN None
      ELSE Some(adjusted_lead)

\* calc_flip_lead_home.  target_lead_adv = -other_contrib / weight is the
\* fraction n / d in units of 1/Scale; atanh(target) / lead_scale *
\* sqrt(minutes_remaining + 1) is atanh * root600 / (600 * 0.15).
calc_flip_lead_home(factors, minutes_remaining) ==
  LET leads == SelectSeq(factors, LAMBDA f : f.name = "lead")
      lead_factor == leads[1]
      other_contrib == SumContrib(factors, "lead")
      n == -other_contrib * Sgn(lead_factor.weight)
      d == Abs(lead_factor.weight)
      target_lead_adv == RoundDiv(n, d)
      adjusted_lead == RoundDiv(atanh(target_lead_adv)
                                  * SqrtMinutesPlusOne(minutes_remaining),
                                6 * CONFIG.lead_scale)
  IN  IF leads = << >> THEN None
      ELSE IF ~lead_factor.active \/ lead_factor.weight = 0 THEN None
      ELSE IF n <= -9990 * d \/ n >= 9990 * d THEN None
      ELSE Some(adjusted_lead
                + CONFIG.home_court_adjustment * (Scale \div 10))

\* get_underdog_team; "None" for no spread or a pick'em.
get_underdog_team(spread) ==
  IF ~spread.some \/ spread.v = 0 THEN "None"
  ELSE IF spread.v > 0 THEN "home" ELSE "away"

\* A plausible slip: the blowout gate is forgotten.
calc_underdog_watch_no_blowout_gate(underdog_team, win_prob_home, win_prob_away, combined_score, minutes_played, data_age_sec, trailing_team, trailing_edge_alert, is_blowout) ==
  LET underdog_prob == IF underdog_team = "home" THEN win_prob_home
                       ELSE win_prob_away
      off == [underdog_prob |-> Some(underdog_prob),
              underdog_watch |-> FALSE, reason |-> "None"]
      reason ==
        IF underdog_prob >= CONFIG.upset_win_prob_threshold
        THEN "prob >= 40%"
        ELSE IF Abs(combined_score) <= CONFIG.upset_flip_buffer_threshold
        THEN "near 50%"
        ELSE IF trailing_edge_alert /\ trailing_team = underdog_team
        THEN "trailing edge"
        ELSE "None"
  IN  IF underdog_team = "None"
      THEN [underdog_prob |-> None, underdog_watch |-> FALSE,
            reason |-> "None"]
      ELSE IF minutes_played < CONFIG.upset_min_minutes * 60 THEN off
      ELSE IF data_age_sec >= CONFIG.stale_warning_sec THEN off
      ELSE [underdog_prob |-> Some(underdog_prob),
            underdog_watch |-> reason # "None", reason |-> reason]

\* A plausible slip: the minutes gate reads the efficiency gate's 24
\* minutes instead of upset_min_minutes.
calc_underdog_watch_late_gate(underdog_team, win_prob_home, win_prob_away, combined_score, minutes_played, data_age_sec, trailing_team, trailing_edge_alert, is_blowout) ==
  LET underdog_prob == IF underdog_team = "home" THEN win_prob_home
                       ELSE win_prob_away
      off == [underdog_prob |-> Some(underdog_prob),
              underdog_watch |-> FALSE, reason |-> "None"]
      reason ==
        IF underdog_prob >= CONFIG.upset_win_prob_threshold
        THEN "prob >= 40%"
        ELSE IF Abs(combined_score) <= CONFIG.upset_flip_buffer_threshold
        THEN "near 50%"
        ELSE IF trailing_edge_alert /\ trailing_team = underdog_team
        THEN "trailing edge"
        ELSE "None"
  IN  IF underdog_team = "None"
      THEN [underdog_prob |-> None, underdog_watch |-> FALSE,
            reason |-> "None"]
      ELSE IF is_blowout THEN off
      ELSE IF minutes_played < CONFIG.possession_edge_gate_minutes * 60
      THEN off
      ELSE IF data_age_sec >= CONFIG.stale_warning_sec THEN off
      ELSE [underdog_prob |-> Some(underdog_prob),
            underdog_watch |-> reason # "None", reason |-> reason]

\* A plausible slip: the test for a score near even comes before the test of
\* the underdog's probability.
calc_underdog_watch_flip_first(underdog_team, win_prob_home, win_prob_away, combined_score, minutes_played, data_age_sec, trailing_team, trailing_edge_alert, is_blowout) ==
  LET underdog_prob == IF underdog_team = "home" THEN win_prob_home
                       ELSE win_prob_away
      off == [underdog_prob |-> Some(underdog_prob),
              underdog_watch |-> FALSE, reason |-> "None"]
      reason ==
        IF Abs(combined_score) <= CONFIG.upset_flip_buffer_threshold
        THEN "near 50%"
        ELSE IF underdog_prob >= CONFIG.upset_win_prob_threshold
        THEN "prob >= 40%"
        ELSE IF trailing_edge_alert /\ trailing_team = underdog_team
        THEN "trailing edge"
        ELSE "None"
  IN  IF underdog_team = "None"
      THEN [underdog_prob |-> None, underdog_watch |-> FALSE,
            reason |-> "None"]
      ELSE IF is_blowout THEN off
      ELSE IF minutes_played < CONFIG.upset_min_minutes * 60 THEN off
      ELSE IF data_age_sec >= CONFIG.stale_warning_sec THEN off
      ELSE [underdog_prob |-> Some(underdog_prob),
            underdog_watch |-> reason # "None", reason |-> reason]

\* calc_underdog_watch: (underdog_prob, underdog_watch, reason).
calc_underdog_watch(underdog_team, win_prob_home, win_prob_away, combined_score, minutes_played, data_age_sec, trailing_team, trailing_edge_alert, is_blowout) ==
  LET underdog_prob == IF underdog_team = "home" THEN win_prob_home
                       ELSE win_prob_away
      off == [underdog_prob |-> Some(underdog_prob),
              underdog_watch |-> FALSE, reason |-> "None"]
      reason ==
        IF underdog_prob >= CONFIG.upset_win_prob_threshold
        THEN "prob >= 40%"
        ELSE IF Abs(combined_score) <= CONFIG.upset_flip_buffer_threshold
        THEN "near 50%"
        ELSE IF trailing_edge_alert /\ trailing_team = underdog_team
        THEN "trailing edge"
        ELSE "None"
  IN  IF underdog_team = "None"
      THEN [underdog_prob |-> None, underdog_watch |-> FALSE,
            reason |-> "None"]
      ELSE IF is_blowout THEN off
      ELSE IF minutes_played < CONFIG.upset_min_minutes * 60 THEN off
      ELSE IF data_age_sec >= CONFIG.stale_warning_sec THEN off
      ELSE [underdog_prob |-> Some(underdog_prob),
            underdog_watch |-> reason # "None", reason |-> reason]

\* A plausible slip: the bound on the flip swing is forgotten.
calc_underdog_close_to_flip_any_swing(underdog_prob, combined_score, flip_swing, minutes_played, data_age_sec, is_blowout) ==
  IF ~underdog_prob.some \/ underdog_prob.v >= Scale \div 2 THEN FALSE
  ELSE IF is_blowout THEN FALSE
  ELSE IF minutes_played < CONFIG.upset_min_minutes * 60 THEN FALSE
  ELSE IF data_age_sec >= CONFIG.stale_warning_sec THEN FALSE
  ELSE IF ~flip_swing.some THEN FALSE
  ELSE Abs(combined_score) <= CONFIG.upset_flip_buffer_threshold

\* calc_underdog_close_to_flip; flip_swing in units of 1/Scale of a point.
calc_underdog_close_to_flip(underdog_prob, combined_score, flip_swing, minutes_played, data_age_sec, is_blowout) ==
  IF ~underdog_prob.some \/ underdog_prob.v >= Scale \div 2 THEN FALSE
  ELSE IF is_blowout THEN FALSE
  ELSE IF minutes_played < CONFIG.upset_min_minutes * 60 THEN FALSE
  ELSE IF data_age_sec >= CONFIG.stale_warning_sec THEN FALSE
  ELSE IF ~flip_swing.some THEN FALSE
  ELSE /\ Abs(combined_score) <= CONFIG.upset_flip_buffer_threshold
       /\ Abs(flip_swing.v)
            <= CONFIG.upset_flip_swing_threshold * (Scale \div 10)

----------------------------------------------------------------------------
\* predict.  The value returned is a record whose kind is "result" (a
\* PredictionResult), "None", or "raised" (an exception left the function).

\* A plausible slip: an unparseable clock taken as the top of a regulation
\* period, 12:00, instead of 0:00.
ClockOrDefault_full_period(clock) ==
  IF parse_clock(clock).ok THEN parse_clock(clock)
  ELSE [ok |-> FALSE, minutes |-> 12, seconds |-> 0]

\* predict's "Parse clock" step: (0, 0) when parse_clock returns None.
ClockOrDefault(clock) ==
  IF parse_clock(clock).ok THEN parse_clock(clock)
  ELSE [ok |-> FALSE, minutes |-> 0, seconds |-> 0]

\* predict's flip_swing: flip_lead_home - current_lead, absent when the
\* flip lead is.
FlipSwing(flip_lead_home, home_score, away_score) ==
  IF flip_lead_home.some
  THEN Some(flip_lead_home.v - Scale * (home_score - away_score))
  ELSE None

\* A plausible slip: the flip fields survive the blowout override.
FlipUnlessBlowout_kept(flip, is_blowout) == flip

\* predict's blowout override of a flip field: nulled on a blowout.
FlipUnlessBlowout(flip, is_blowout) == IF is_blowout THEN None ELSE flip

\* A plausible slip: a blowout is reported with confidence High, whatever the
\* factors, the data age and the spread say.
predict_blowout_is_certain(game_state, home_stats, away_stats, home_season, away_season, spread, data_age_sec, enable_possession_edge) ==
  LET parsed == ClockOrDefault(game_state.clock)
      clock_minutes == parsed.minutes
      clock_seconds == parsed.seconds
      tv == calc_time_values(game_state.quarter, clock_minutes, clock_seconds)
      minutes_remaining == tv.minutes_remaining
      minutes_played == tv.minutes_played
      is_overtime == game_state.quarter > 4
      game_status == get_game_status(game_state.status, game_state.quarter,
                                     game_state.clock)
      lead_factor ==
        IF game_status = "pre_game"
        THEN FactorResult("lead", 0, 0, FALSE, "None")
        ELSE calc_lead_advantage(game_state.home_score, game_state.away_score,
                                 minutes_remaining, minutes_played)
      efficiency_factor ==
        IF game_status = "pre_game"
        THEN FactorResult("efficiency", 0, 0, FALSE, "None")
        ELSE calc_efficiency_advantage(home_stats, away_stats, home_season,
                                       away_season, minutes_played)
      has_possession_edge ==
        game_status # "pre_game" /\ enable_possession_edge
      spread_factor == calc_spread_advantage(spread)
      factors0 ==
        << lead_factor, spread_factor, efficiency_factor >>
        \o (IF has_possession_edge
            THEN << calc_possession_edge_advantage(home_stats, away_stats,
                                                   minutes_played) >>
            ELSE << >>)
      total_weight == SumWeights(factors0, FALSE)
      factors == normalize_weights(factors0)
      combined == calc_combined_score(factors, is_overtime)
      probs == calc_win_probability(combined)
      blowout == check_blowout(game_state.home_score, game_state.away_score,
                               minutes_remaining)
      win_prob_home == IF blowout.is_blowout THEN blowout.win_prob_home
                       ELSE probs.win_prob_home
      win_prob_away == IF blowout.is_blowout THEN blowout.win_prob_away
                       ELSE probs.win_prob_away
      confidence == IF blowout.is_blowout THEN "High"
                    ELSE calc_confidence(factors, data_age_sec,
                                         minutes_played, spread_factor.active)
      trailing == check_trailing_edge(game_state.home_score,
                                      game_state.away_score, factors)
      flip_lead_home0 == calc_flip_lead_home(factors, minutes_remaining)
      flip_swing0 == FlipSwing(flip_lead_home0, game_state.home_score,
                               game_state.away_score)
      flip_lead_home == FlipUnlessBlowout(flip_lead_home0, blowout.is_blowout)
      flip_swing == FlipUnlessBlowout(flip_swing0, blowout.is_blowout)
      underdog_team == get_underdog_team(spread)
      underdog ==
        calc_underdog_watch(underdog_team, win_prob_home, win_prob_away,
                            combined, minutes_played, data_age_sec,
                            trailing.trailing_team, trailing.show_alert,
                            blowout.is_blowout)
      underdog_close_to_flip ==
        calc_underdog_close_to_flip(underdog.underdog_prob, combined,
                                    flip_swing, minutes_played, data_age_sec,
                                    blowout.is_blowout)
  IN  IF total_weight = 0 THEN [kind |-> "None"]
      ELSE IF probs.raised THEN [kind |-> "raised", exc |-> "OverflowError"]
      ELSE [kind |-> "result",
            win_prob_home |-> win_prob_home,
            win_prob_away |-> win_prob_away,
            combined_score |-> combined,
            confidence |-> confidence,
            factors |-> factors,
            trailing_team |-> trailing.trailing_team,
            trailing_edge_alert |-> trailing.show_alert,
            is_blowout |-> blowout.is_blowout,
            is_overtime |-> is_overtime,
            minutes_played |-> minutes_played,
            minutes_remaining |-> minutes_remaining,
            flip_lead_home |-> flip_lead_home,
            flip_swing |-> flip_swing,
            underdog_team |-> underdog_team,
            underdog_prob |-> underdog.underdog_prob,
            underdog_watch |-> underdog.underdog_watch,
            underdog_reason |-> underdog.reason,
            underdog_close_to_flip |-> underdog_close_to_flip]

predict(game_state, home_stats, away_stats, home_season, away_season, spread, data_age_sec, enable_possession_edge) ==
  LET parsed == ClockOrDefault(game_state.clock)
      clock_minutes == parsed.minutes
      clock_seconds == parsed.seconds
      tv == calc_time_values(game_state.quarter, clock_minutes, clock_seconds)
      minutes_remaining == tv.minutes_remaining
      minutes_played == tv.minutes_played
      is_overtime == game_state.quarter > 4
      game_status == get_game_status(game_state.status, game_state.quarter,
                                     game_state.clock)
      lead_factor ==
        IF game_status = "pre_game"
        THEN FactorResult("lead", 0, 0, FALSE, "None")
        ELSE calc_lead_advantage(game_state.home_score, game_state.away_score,
                                 minutes_remaining, minutes_played)
      efficiency_factor ==
        IF game_status = "pre_game"
        THEN FactorResult("efficiency", 0, 0, FALSE, "None")
        ELSE calc_efficiency_advantage(home_stats, away_stats, home_season,
                                       away_season, minutes_played)
      has_possession_edge ==
        game_status # "pre_game" /\ enable_possession_edge
      spread_factor == calc_spread_advantage(spread)
      factors0 ==
        << lead_factor, spread_factor, efficiency_factor >>
        \o (IF has_possession_edge
            THEN << calc_possession_edge_advantage(home_stats, away_stats,
                                                   minutes_played) >>
            ELSE << >>)
      total_weight == SumWeights(factors0, FALSE)
      factors == normalize_weights(factors0)
      combined == calc_combined_score(factors, is_overtime)
      probs == calc_win_probability(combined)
      blowout == check_blowout(game_state.home_score, game_state.away_score,
                               minutes_remaining)
      win_prob_home == IF blowout.is_blowout THEN blowout.win_prob_home
                       ELSE probs.win_prob_home
      win_prob_away == IF blowout.is_blowout THEN blowout.win_prob_away
                       ELSE probs.win_prob_away
      confidence == calc_confidence(factors, data_age_sec, minutes_played,
                                    spread_factor.active)
      trailing == check_trailing_edge(game_state.home_score,
                                      game_state.away_score, factors)
      flip_lead_home0 == calc_flip_lead_home(factors, minutes_remaining)
      flip_swing0 == FlipSwing(flip_lead_home0, game_state.home_score,
                               game_state.away_score)
      flip_lead_home == FlipUnlessBlowout(flip_lead_home0, blowout.is_blowout)
      flip_swing == FlipUnlessBlowout(flip_swing0, blowout.is_blowout)
      underdog_team == get_underdog_team(spread)
      underdog ==
        calc_underdog_watch(underdog_team, win_prob_home, win_prob_away,
                            combined, minutes_played, data_age_sec,
                            trailing.trailing_team, trailing.show_alert,
                            blowout.is_blowout)
      underdog_close_to_flip ==
        calc_underdog_close_to_flip(underdog.underdog_prob, combined,
                                    flip_swing, minutes_played, data_age_sec,
                                    blowout.is_blowout)
  IN  IF total_weight = 0 THEN [kind |-> "None"]
      ELSE IF probs.raised THEN [kind |-> "raised", exc |-> "OverflowError"]
      ELSE [kind |-> "result",
            win_prob_home |-> win_prob_home,
            win_prob_away |-> win_prob_away,
            combined_score |-> combined,
            confidence |-> confidence,
            factors |-> factors,
            trailing_team |-> trailing.trailing_team,
            trailing_edge_alert |-> trailing.show_alert,
            is_blowout |-> blowout.is_blowout,
            is_overtime |-> is_overtime,
            minutes_played |-> minutes_played,
            minutes_remaining |-> minutes_remaining,
            flip_lead_home |-> flip_lead_home,
            flip_swing |-> flip_swing,
            underdog_team |-> underdog_team,
            underdog_prob |-> underdog.underdog_prob,
            underdog_watch |-> underdog.underdog_watch,
            underdog_reason |-> underdog.reason,
            underdog_close_to_flip |-> underdog_close_to_flip]

----------------------------------------------------------------------------
\* Inputs.  Every function of the module is pure, so the state is one call:
\* the function called, its arguments, and what it returned.

MaxPeriod == 6

MaxClockMinutes == 12

MaxClockSeconds == 59

Str_12_00 == << "1", "2", ":", "0", "0" >>

Str_5_01 == << "5", ":", "0", "1" >>

Str_5_00 == << "5", ":", "0", "0" >>

Str_4_32 == << "4", ":", "3", "2" >>

Str_1_23_4 == << "1", ":", "2", "3", ".", "4" >>

Str_abc == << "a", "b", "c" >>

Str_12 == << "1", "2" >>

Str_108_01 == << "1", "0", "8", ":", "0", "1" >>

\* Clock strings a snapshot may carry: absent, empty, well formed, with
\* tenths, not a clock at all, without a colon, and longer than any period.
ClockSet ==
  { NoClock, << >>, Str_12_00, Str_5_01, Str_5_00, Str_4_32, ZeroClock,
    Str_1_23_4, Str_abc, Str_12, Str_108_01 }

StatusSet == { "In Progress", "Final" }

ScoreSet ==
  { <<0, 0>>, <<87, 82>>, <<50, 30>>, <<49, 30>>, <<70, 100>>, <<150, 50>> }

TeamStats(fgm, fga, fg3m, fta, tov, orb) ==
  [fgm |-> fgm, fga |-> fga, fg3m |-> fg3m, fta |-> fta, tov |-> tov,
   orb |-> orb]

ZeroStats == TeamStats(0, 0, 0, 0, 0, 0)

HotStats == TeamStats(24, 44, 6, 10, 5, 6)

AvgStats == TeamStats(22, 44, 2, 10, 7, 5)

ColdStats == TeamStats(5, 14, 1, 2, 4, 1)

\* Counts far beyond any box score.
ExtremeStats == TeamStats(200, 200, 200, 0, 90, 0)

\* (home_stats, away_stats) pairs.
StatsSet ==
  { <<ZeroStats, ZeroStats>>, <<HotStats, AvgStats>>, <<AvgStats, HotStats>>,
    <<AvgStats, AvgStats>>, <<ColdStats, AvgStats>>, <<HotStats, ColdStats>>,
    <<ExtremeStats, ZeroStats>> }

\* league_avg_efg / league_avg_tov_rate, the fetcher's fallback baseline.
LeagueAverage == [efg |-> 5200, tov_rate |-> 1300]

\* Spreads in half points: absent, pick'em, -2.0, -0.5, +5.0, -30.0.
SpreadSet == { None, Some(0), Some(-4), Some(-1), Some(10), Some(-60) }

DataAgeSet == { 45, 120, 300 }

GameState(home_score, away_score, quarter, clock, status) ==
  [home_score |-> home_score, away_score |-> away_score, quarter |-> quarter,
   clock |-> clock, status |-> status]

PredictArgs ==
  { [game_state |-> GameState(sc[1], sc[2], q, c, st),
     home_stats |-> stp[1], away_stats |-> stp[2],
     home_season |-> LeagueAverage, away_season |-> LeagueAverage,
     spread |-> sp, data_age_sec |-> age, enable_possession_edge |-> pe] :
      sc \in ScoreSet, q \in 0..MaxPeriod, c \in ClockSet, st \in StatusSet,
      stp \in StatsSet, sp \in SpreadSet, age \in DataAgeSet, pe \in BOOLEAN }

\* Factor lists handed to normalize_weights directly: raw weights of either
\* sign, active or not.
NormalizeWeightSet == { -W(10), 0, W(10), W(40) }

NormalizeArgs ==
  { [factors |-> << FactorResult("lead", 2000, w[1], a[1], "None"),
                    FactorResult("spread", -1000, w[2], a[2], "None"),
                    FactorResult("efficiency", 1500, w[3], a[3], "False") >>] :
      w \in [1..3 -> NormalizeWeightSet], a \in [1..3 -> BOOLEAN] }

\* Advantages (units of 1/Scale) and minutes played (seconds) on both sides
\* of every threshold of calc_confidence.
AdvantageSet == { -1500, 0, 500, 2000, 2600 }

MinutesPlayedSet == { 12 * 60 - 1, 12 * 60, 24 * 60 - 1, 24 * 60 }

ConfidenceArgs ==
  { [factors |-> << FactorResult("lead", v[1], W(30), a[1], "None"),
                    FactorResult("spread", v[2], W(40), a[2], "None"),
                    FactorResult("efficiency", v[3], W(25), a[3], "False") >>,
     data_age_sec |-> age, minutes_played |-> mp, spread_available |-> sa] :
      v \in [1..3 -> AdvantageSet], a \in [1..3 -> BOOLEAN],
      age \in DataAgeSet, mp \in MinutesPlayedSet, sa \in BOOLEAN }

TimeArgs ==
  { [quarter |-> q, clock_minutes |-> m, clock_seconds |-> sec] :
      q \in 0..MaxPeriod, m \in (-1)..MaxClockMinutes,
      sec \in 0..MaxClockSeconds }

\* Scores and advantages on both sides of the thresholds of
\* check_trailing_edge: ties, margins of 2 and 3, advantages at and just
\* inside 0.15.
TrailingScoreSet == { <<10, 10>>, <<12, 10>>, <<13, 10>>, <<10, 12>>, <<10, 13>> }

TrailingAdvantageSet == { -1500, -1499, 0, 1499, 1500 }

TrailingArgs ==
  { [home_score |-> sc[1], away_score |-> sc[2],
     factors |-> << FactorResult("lead", v[1], W(30), a[1], "None"),
                    FactorResult("spread", v[2], W(40), a[2], "None"),
                    FactorResult("efficiency", v[3], W(25), a[3], "False") >>] :
      sc \in TrailingScoreSet, v \in [1..3 -> TrailingAdvantageSet],
      a \in [1..3 -> BOOLEAN] }

\* Combined scores handed to calc_win_probability: the range [-1, 1] that
\* normalized weights in [0, 1] give, the smallest non-zero magnitudes, and
\* the score predict computes for period 1, clock "108:01", 70-100, no
\* spread, where the normalized lead weight is 1921.
FarClockCombined ==
  calc_combined_score(
    normalize_weights(
      << calc_lead_advantage(70, 100,
                             calc_time_values(1, 108, 1).minutes_remaining,
                             calc_time_values(1, 108, 1).minutes_played),
         calc_spread_advantage(None),
         calc_efficiency_advantage(ZeroStats, ZeroStats, LeagueAverage,
                                   LeagueAverage,
                                   calc_time_values(1, 108, 1).minutes_played)
      >>),
    FALSE)

CombinedSet ==
  { 250 * i : i \in (-40)..40 } \cup { -1, 1, FarClockCombined }

WinProbabilityArgs == { [combined |-> c] : c \in CombinedSet }

Pending == [kind |-> "pending"]

VARIABLES fn, args, ret, pc

vars == << fn, args, ret, pc >>

Init ==
  /\ pc = "call"
  /\ ret = Pending
  /\ \/ fn = "predict" /\ args \in PredictArgs
     \/ fn = "normalize_weights" /\ args \in NormalizeArgs
     \/ fn = "calc_confidence" /\ args \in ConfidenceArgs
     \/ fn = "calc_time_values" /\ args \in TimeArgs
     \/ fn = "check_trailing_edge" /\ args \in TrailingArgs
     \/ fn = "calc_win_probability" /\ args \in WinProbabilityArgs

\* One call of predict on the snapshot in args.
Predict ==
  /\ fn = "predict"
  /\ pc = "call"
  /\ ret' = predict(args.game_state, args.home_stats, args.away_stats,
                    args.home_season, args.away_season, args.spread,
                    args.data_age_sec, args.enable_possession_edge)
  /\ pc' = "return"
  /\ UNCHANGED << fn, args >>

NormalizeWeights ==
  /\ fn = "normalize_weights"
  /\ pc = "call"
  /\ ret' = [kind |-> "result", factors |-> normalize_weights(args.factors)]
  /\ pc' = "return"
  /\ UNCHANGED << fn, args >>

CalcConfidence ==
  /\ fn = "calc_confidence"
  /\ pc = "call"
  /\ ret' = [kind |-> "result",
             confidence |-> calc_confidence(args.factors, args.data_age_sec,
                                            args.minutes_played,
                                            args.spread_available)]
  /\ pc' = "return"
  /\ UNCHANGED << fn, args >>

CalcTimeValues ==
  /\ fn = "calc_time_values"
  /\ pc = "call"
  /\ ret' = [kind |-> "result",
             time |-> calc_time_values(args.quarter, args.clock_minutes,
                                       args.clock_seconds)]
  /\ pc' = "return"
  /\ UNCHANGED << fn, args >>

CheckTrailingEdge ==
  /\ fn = "check_trailing_edge"
  /\ pc = "call"
  /\ ret' = [kind |-> "result",
             trailing |-> check_trailing_edge(args.home_score,
                                              args.away_score, args.factors)]
  /\ pc' = "return"
  /\ UNCHANGED << fn, args >>

\* kind is "raised" when math.exp raises OverflowError.
CalcWinProbability ==
  /\ fn = "calc_win_probability"
  /\ pc = "call"
  /\ ret' = LET probs == calc_win_probability(args.combined)
            IN  IF probs.raised
                THEN [kind |-> "raised", exc |-> "OverflowError"]
                ELSE [kind |-> "result",
                      win_prob_home |-> probs.win_prob_home,
                      win_prob_away |-> probs.win_prob_away]
  /\ pc' = "return"
  /\ UNCHANGED << fn, args >>

Next ==
  \/ Predict
  \/ NormalizeWeights
  \/ CalcConfidence
  \/ CalcTimeValues
  \/ CheckTrailingEdge
  \/ CalcWinProbability

Spec == Init /\ [][Next]_vars

----------------------------------------------------------------------------
\* One game followed through successive snapshots: the caller polls, each
\* snapshot is later in game time than the one before, and predict is called
\* on each.  ret keeps the previous result until the next call returns.

\* Clock strings within a period's length.
GameClockSet ==
  { Str_12_00, Str_5_01, Str_5_00, Str_4_32, Str_1_23_4, ZeroClock }

ClockSeconds(c) == 60 * parse_clock(c).minutes + parse_clock(c).seconds

PeriodLength(q) == IF q <= 4 THEN 12 * 60 ELSE 5 * 60

InPeriod(q, c) == ClockSeconds(c) <= PeriodLength(q)

GameInit ==
  /\ pc = "call"
  /\ ret = Pending
  /\ fn = "predict"
  /\ \E q \in 0..MaxPeriod, c \in GameClockSet, sp \in {None, Some(-4)},
        st \in StatusSet :
       /\ InPeriod(q, c)
       /\ args = [game_state |-> GameState(87, 82, q, c, st),
                  home_stats |-> HotStats, away_stats |-> AvgStats,
                  home_season |-> LeagueAverage,
                  away_season |-> LeagueAverage,
                  spread |-> sp, data_age_sec |-> 45,
                  enable_possession_edge |-> FALSE]

\* The next snapshot of the same game: the period never decreases and,
\* within a period, the clock never increases.
NextSnapshot ==
  /\ fn = "predict"
  /\ pc = "return"
  /\ \E q \in 0..MaxPeriod, c \in GameClockSet :
       /\ InPeriod(q, c)
       /\ \/ q > args.game_state.quarter
          \/ /\ q = args.game_state.quarter
             /\ ClockSeconds(c) <= ClockSeconds(args.game_state.clock)
       /\ args' = [args EXCEPT !.game_state.quarter = q,
                               !.game_state.clock = c]
  /\ pc' = "call"
  /\ UNCHANGED << fn, ret >>

GameNext == Predict \/ NextSnapshot

SpecGame == GameInit /\ [][GameNext]_vars

----------------------------------------------------------------------------
\* Calls for two games, interleaved in any order.  Here args, ret and pc
\* hold one entry per game: the snapshot the caller built for the game's
\* next call, the game's last result, and whether that call is still to be
\* made.  predict reads its arguments and CONFIG and assigns to neither, so
\* a call changes the caller's result for that game and nothing else.

Games == { "game_a", "game_b" }

CallSnapshotSet ==
  { [game_state |-> GameState(sc[1], sc[2], q, Str_4_32, "In Progress"),
     home_stats |-> HotStats, away_stats |-> AvgStats,
     home_season |-> LeagueAverage, away_season |-> LeagueAverage,
     spread |-> sp, data_age_sec |-> 45, enable_possession_edge |-> TRUE] :
      sc \in { <<87, 82>>, <<50, 30>> }, q \in { 2, 4, 5 },
      sp \in { None, Some(-4) } }

\* predict on one argument record.
PredictOn(a) ==
  predict(a.game_state, a.home_stats, a.away_stats, a.home_season,
          a.away_season, a.spread, a.data_age_sec, a.enable_possession_edge)

\* A plausible slip: results are kept in a module-level cache keyed by
\* period and clock only, so a call may return another game's result.
ResultOfCall_cached(g) ==
  LET h == CHOOSE x \in Games : x # g
  IN  IF /\ pc[h] = "return"
         /\ args[h].game_state.quarter = args[g].game_state.quarter
         /\ args[h].game_state.clock = args[g].game_state.clock
      THEN ret[h]
      ELSE PredictOn(args[g])

\* What the call for game g returns in the current state.
ResultOfCall(g) == PredictOn(args[g])

CallsInit ==
  /\ fn = "predict"
  /\ args \in [Games -> CallSnapshotSet]
  /\ ret = [g \in Games |-> Pending]
  /\ pc = [g \in Games |-> "call"]

\* The pending call for game g is made and returns.
PredictGame(g) ==
  /\ pc[g] = "call"
  /\ ret' = [ret EXCEPT ![g] = ResultOfCall(g)]
  /\ pc' = [pc EXCEPT ![g] = "return"]
  /\ UNCHANGED << fn, args >>

\* The caller polls game g again and builds the next snapshot.
PollGame(g) ==
  /\ pc[g] = "return"
  /\ \E a \in CallSnapshotSet : args' = [args EXCEPT ![g] = a]
  /\ pc' = [pc EXCEPT ![g] = "call"]
  /\ UNCHANGED << fn, ret >>

PredictSomeGame == \E g \in Games : PredictGame(g)

PollSomeGame == \E g \in Games : PollGame(g)

CallsNext == PredictSomeGame \/ PollSomeGame

SpecCalls == CallsInit /\ [][CallsNext]_vars

----------------------------------------------------------------------------
\* Vocabulary of the properties.

PredictReturned == fn = "predict" /\ pc = "return"

ReturnedResult == PredictReturned /\ ret.kind = "result"

\* The snapshot is pre-game: status not 'Final' and period 0 or clock absent.
PreGame(gs) == gs.status # "Final" /\ (gs.quarter = 0 \/ gs.clock = NoClock)

\* The weights of the active factors add up to exactly 1.
ActiveWeightsSumToOne(factors) ==
  /\ \A i \in 1..Len(factors) :
       factors[i].active => factors[i].wden = ActiveDen(factors)
  /\ SumWeights(factors, TRUE) = ActiveDen(factors)

FactorNamed(factors, name) ==
  factors[CHOOSE i \in 1..Len(factors) : factors[i].name = name]

HasFactor(factors, name) ==
  \E i \in 1..Len(factors) : factors[i].name = name

----------------------------------------------------------------------------
\* C1.  predict returns None if and only if the snapshot is pre-game and the
\* spread is absent; for every other snapshot (not pre-game, with or without
\* a spread, or pre-game with a spread, a spread of 0 included) it returns a
\* PredictionResult.
C1_NoneIffPreGameWithoutSpread ==
  PredictReturned =>
    /\ ret.kind = "None" <=> (PreGame(args.game_state) /\ ~args.spread.some)
    /\ ~(PreGame(args.game_state) /\ ~args.spread.some) => ret.kind = "result"


----------------------------------------------------------------------------
\* C2.  In every PredictionResult returned by predict the two win
\* probabilities add up to 1 and each lies in [0, 1], whether they come
\* from the sigmoid or from the blowout override.
C2_ProbabilitiesSumToOne ==
  ReturnedResult =>
    /\ ret.win_prob_home + ret.win_prob_away = Scale
    /\ ret.win_prob_home >= 0 /\ ret.win_prob_home <= Scale
    /\ ret.win_prob_away >= 0 /\ ret.win_prob_away <= Scale

\* A result whose probabilities come from the sigmoid, away from 0, 1/2, 1.
C2_Witness ==
  /\ ReturnedResult
  /\ ~ret.is_blowout
  /\ ret.win_prob_home > Scale \div 2
  /\ ret.win_prob_home < Scale

----------------------------------------------------------------------------
\* minutes_remaining (seconds) of a snapshot, as predict derives it.
SnapshotMinutesRemaining(gs) ==
  calc_time_values(gs.quarter, ClockOrDefault(gs.clock).minutes,
                   ClockOrDefault(gs.clock).seconds).minutes_remaining

RawMargin(gs) == Abs(gs.home_score - gs.away_score)

\* The override pair, oriented by the team that leads on the raw score.
OverridePair(gs, r) ==
  /\ r.is_blowout
  /\ gs.home_score > gs.away_score =>
       r.win_prob_home = 9900 /\ r.win_prob_away = 100
  /\ gs.home_score < gs.away_score =>
       r.win_prob_home = 100 /\ r.win_prob_away = 9900

----------------------------------------------------------------------------
\* C4.  normalize_weights makes the active weights add up to 1 whenever
\* they added up to a non-zero total; when that total is 0 it returns the
\* list unchanged; inactive factors keep their weight either way.  In every
\* PredictionResult the active weights add up to 1.
C4_NormalizedWeightsSumToOne ==
  /\ (fn = "normalize_weights" /\ pc = "return") =>
       /\ SumWeights(args.factors, TRUE) # 0 =>
            ActiveWeightsSumToOne(ret.factors)
       /\ SumWeights(args.factors, TRUE) = 0 => ret.factors = args.factors
       /\ Len(ret.factors) = Len(args.factors)
       /\ \A i \in 1..Len(args.factors) :
            ~args.factors[i].active => ret.factors[i] = args.factors[i]
  /\ ReturnedResult => ActiveWeightsSumToOne(ret.factors)

\* normalize_weights rescaled two active factors and passed over an inactive
\* factor that carries a weight.
C4_Witness ==
  /\ fn = "normalize_weights" /\ pc = "return"
  /\ SumWeights(args.factors, TRUE) # 0
  /\ Cardinality({i \in 1..3 : args.factors[i].active}) = 2
  /\ \E i \in 1..3 : ~args.factors[i].active /\ args.factors[i].weight # 0
  /\ ret.factors # args.factors

----------------------------------------------------------------------------
\* C5.  predict and its helpers raise no exception and never divide by zero
\* for any snapshot with non-negative scores and counts, any period >= 0
\* and any clock; calc_possessions is never below 1 and calc_efg is 0 when
\* FGA = 0.
C5_PredictNeverRaises ==
  PredictReturned =>
    /\ ret.kind # "raised"
    /\ \A st \in {args.home_stats, args.away_stats} :
         /\ calc_possessions(st.fga, st.fta, st.tov, st.orb) >= 100
         /\ st.fga = 0 => calc_efg(st.fgm, st.fg3m, st.fga) = 0

----------------------------------------------------------------------------
\* The formula of C6, in seconds: regulation and overtime.
ReferenceTimeValues(period, clock) ==
  IF period <= 4
  THEN LET remaining == (4 - period) * 720 + clock
       IN  << IF remaining < 0 THEN 0 ELSE remaining,
              2880 - (IF remaining < 0 THEN 0 ELSE remaining) >>
  ELSE LET k == period - 4
           elapsed == 300 - clock
       IN  << IF 300 - elapsed < 0 THEN 0 ELSE 300 - elapsed,
              2880 + (k - 1) * 300 + elapsed >>

\* C6.  calc_time_values equals the reference formula for every period and
\* clock; minutes_remaining is never negative; (1, 12:00) gives (48, 0),
\* (2, 0:00) gives (24, 24), (5, 5:00) gives (5, 48), (6, 3:00) gives (3, 55).
C6_TimeValuesMatchReference ==
  (fn = "calc_time_values" /\ pc = "return") =>
    LET clock == 60 * args.clock_minutes + args.clock_seconds
        got == << ret.time.minutes_remaining, ret.time.minutes_played >>
    IN  /\ got = ReferenceTimeValues(args.quarter, clock)
        /\ ret.time.minutes_remaining >= 0
        /\ (args.quarter = 1 /\ clock = 12 * 60) => got = << 48 * 60, 0 >>
        /\ (args.quarter = 2 /\ clock = 0) => got = << 24 * 60, 24 * 60 >>
        /\ (args.quarter = 5 /\ clock = 5 * 60) => got = << 5 * 60, 48 * 60 >>
        /\ (args.quarter = 6 /\ clock = 3 * 60) => got = << 3 * 60, 55 * 60 >>

\* The second overtime at 3:00 came out as (3, 55).
C6_Witness ==
  /\ fn = "calc_time_values" /\ pc = "return"
  /\ args.quarter = 6 /\ args.clock_minutes = 3 /\ args.clock_seconds = 0
  /\ ret.time.minutes_played = 55 * 60

----------------------------------------------------------------------------
\* C7.  Along the snapshots of one game taken in game-time order, with
\* well-formed clocks within the period's length, the minutes_played that
\* predict reports never decreases, period boundaries included.
C7_MinutesPlayedNeverDecreases ==
  [][(fn = "predict" /\ ret.kind = "result" /\ ret'.kind = "result")
       => ret'.minutes_played >= ret.minutes_played]_vars

\* About to call predict on a first-overtime snapshot after a result for the
\* end of regulation.
C7_Witness ==
  /\ fn = "predict" /\ pc = "call"
  /\ ret.kind = "result"
  /\ ret.minutes_played = 48 * 60
  /\ ~ret.is_overtime
  /\ args.game_state.quarter = 5

----------------------------------------------------------------------------
\* The clock is absent or parse_clock rejects it.
ClockUnusable(clock) == clock = NoClock \/ ~parse_clock(clock).ok

\* (minutes_remaining, minutes_played), seconds, when a period starts.
StartOfPeriod(period) ==
  IF period = 0 THEN << 2880, 0 >>
  ELSE IF period <= 4 THEN << 2880 - (period - 1) * 720, (period - 1) * 720 >>
  ELSE << 300, 2880 + (period - 5) * 300 >>

\* (minutes_remaining, minutes_played), seconds, when a period's clock
\* reads 0:00.
ClockAtZero(period) ==
  IF period <= 4 THEN << (4 - period) * 720, period * 720 >>
  ELSE << 0, 2880 + (period - 4) * 300 >>

----------------------------------------------------------------------------
\* Lead and efficiency inactive with weight 0, no possession edge, spread
\* the only active factor with normalized weight 1.
OnlySpreadActive(factors) ==
  /\ Len(factors) = 3
  /\ factors[1].name = "lead" /\ ~factors[1].active /\ factors[1].weight = 0
  /\ factors[2].name = "spread" /\ factors[2].active
  /\ factors[2].weight = factors[2].wden
  /\ factors[3].name = "efficiency" /\ ~factors[3].active
  /\ factors[3].weight = 0

\* The home probability sits on the favoured side of 1/2.
ProbabilityFollowsSpread(spread, win_prob_home) ==
  /\ win_prob_home > Scale \div 2 <=> spread.v < 0
  /\ win_prob_home < Scale \div 2 <=> spread.v > 0
  /\ win_prob_home = Scale \div 2 <=> spread.v = 0

----------------------------------------------------------------------------
\* The decision table of C10 on a factor list.
ConfidenceTable(factors, data_age_sec, minutes_played, spread_available) ==
  LET A == {i \in 1..Len(factors) : factors[i].active}
      low == \/ A = {}
             \/ data_age_sec >= 300
             \/ \E i, j \in A :
                  factors[i].advantage - factors[j].advantage > 2000
             \/ minutes_played < 12 * 60
      medium == \/ \E i, j \in A :
                     factors[i].advantage > 0 /\ factors[j].advantage < 0
                \/ data_age_sec >= 120
                \/ minutes_played < 24 * 60
                \/ ~spread_available
  IN  IF low THEN "Low" ELSE IF medium THEN "Medium" ELSE "High"

\* C10.  calc_confidence equals the decision table for all inputs: the Low
\* floors come first, then the Medium conditions, and High is never returned
\* without a spread.
C10_ConfidenceMatchesTable ==
  /\ (fn = "calc_confidence" /\ pc = "return") =>
       /\ ret.confidence
            = ConfidenceTable(args.factors, args.data_age_sec,
                              args.minutes_played, args.spread_available)
       /\ ret.confidence = "High" => args.spread_available
  /\ ReturnedResult =>
       /\ ret.confidence
            = ConfidenceTable(ret.factors, args.data_age_sec,
                              ret.minutes_played, args.spread.some)
       /\ ret.confidence = "High" => args.spread.some

\* calc_confidence answered High for three active factors.
C10_Witness ==
  /\ fn = "calc_confidence" /\ pc = "return"
  /\ ret.confidence = "High"
  /\ \A i \in 1..3 : args.factors[i].active


----------------------------------------------------------------------------
\* The rule of C11 on a score and a factor list.
TrailingTable(home_score, away_score, factors) ==
  LET team == IF home_score < away_score THEN "home" ELSE "away"
      favoring ==
        {i \in 1..Len(factors) :
           /\ factors[i].active
           /\ IF team = "home" THEN factors[i].advantage >= 1500
              ELSE factors[i].advantage <= -1500}
  IN  IF home_score = away_score
      THEN [trailing_team |-> "None", show_alert |-> FALSE]
      ELSE [trailing_team |-> team,
            show_alert |-> /\ Abs(home_score - away_score) >= 3
                           /\ Cardinality(favoring) >= 2]

\* C11.  check_trailing_edge: a tie gives no trailing team and no alert;
\* otherwise the trailing team is the side with the lower raw score, and the
\* alert is raised exactly when the raw margin is at least 3 and at least
\* two active factors favor the trailing team by at least 0.15; inactive
\* factors never count.
C11_TrailingEdgeMatchesRule ==
  /\ (fn = "check_trailing_edge" /\ pc = "return") =>
       ret.trailing
         = TrailingTable(args.home_score, args.away_score, args.factors)
  /\ ReturnedResult =>
       [trailing_team |-> ret.trailing_team,
        show_alert |-> ret.trailing_edge_alert]
         = TrailingTable(args.game_state.home_score,
                         args.game_state.away_score, ret.factors)

\* No alert at a margin of exactly 3 although two factors favor the
\* trailing home team by exactly 0.15: one of the two is inactive.
C11_Witness ==
  /\ fn = "check_trailing_edge" /\ pc = "return"
  /\ args.away_score - args.home_score = 3
  /\ Cardinality({i \in 1..3 : args.factors[i].advantage = 1500}) = 2
  /\ \E i \in 1..3 :
       ~args.factors[i].active /\ args.factors[i].advantage = 1500
  /\ \E i \in 1..3 :
       args.factors[i].active /\ args.factors[i].advantage = 1500
  /\ ret.trailing.trailing_team = "home"
  /\ ~ret.trailing.show_alert


----------------------------------------------------------------------------
\* The underdog's win probability in a result, by the sign of the spread.
UnderdogProbability(spread, r) ==
  IF spread.v > 0 THEN r.win_prob_home ELSE r.win_prob_away

\* C12.  In every PredictionResult the underdog is "home" when spread > 0,
\* "away" when spread < 0 and absent when the spread is 0 or unavailable
\* (then underdog_prob is null and underdog_watch is false); underdog_watch
\* is true exactly when an underdog exists, the result is not a blowout,
\* minutes_played >= 12, data_age_sec < 120, and at least one of: underdog
\* win probability >= 0.40, |combined_score| <= 0.08, or the trailing-edge
\* alert is raised with the underdog as trailing team.
C12_UnderdogWatchMatchesRule ==
  ReturnedResult =>
    /\ ret.underdog_team
         = (IF args.spread.some /\ args.spread.v > 0 THEN "home"
            ELSE IF args.spread.some /\ args.spread.v < 0 THEN "away"
            ELSE "None")
    /\ ret.underdog_team = "None" =>
         ~ret.underdog_prob.some /\ ~ret.underdog_watch
    /\ ret.underdog_watch <=>
         /\ ret.underdog_team # "None"
         /\ ~ret.is_blowout
         /\ ret.minutes_played >= 12 * 60
         /\ args.data_age_sec < 120
         /\ \/ UnderdogProbability(args.spread, ret) >= 4000
            \/ Abs(ret.combined_score) <= 800
            \/ /\ ret.trailing_edge_alert
               /\ ret.trailing_team = ret.underdog_team

\* The home underdog trails by 30, is below 40% and far from an even score,
\* and is on watch only because the trailing-edge alert names it.
C12_Witness ==
  /\ ReturnedResult
  /\ ret.underdog_team = "home"
  /\ ret.underdog_watch
  /\ ret.win_prob_home < 4000
  /\ Abs(ret.combined_score) > 800
  /\ ret.trailing_edge_alert
  /\ ret.trailing_team = "home"


----------------------------------------------------------------------------
\* C13.  Whenever underdog_close_to_flip is true in a PredictionResult, an
\* underdog exists with win probability strictly below 0.5, flip_swing is
\* non-null with |flip_swing| <= 4.0, the result is not a blowout,
\* minutes_played >= 12 and data_age_sec < 120.
C13_CloseToFlipImpliesItsGates ==
  (ReturnedResult /\ ret.underdog_close_to_flip) =>
    /\ ret.underdog_team # "None"
    /\ ret.underdog_prob.some
    /\ ret.underdog_prob.v = UnderdogProbability(args.spread, ret)
    /\ ret.underdog_prob.v < Scale \div 2
    /\ ret.flip_swing.some
    /\ Abs(ret.flip_swing.v) <= 4 * Scale
    /\ ~ret.is_blowout
    /\ ret.minutes_played >= 12 * 60
    /\ args.data_age_sec < 120

\* An underdog below 50% whose flip lead is within four points of the
\* score, but not on it.
C13_Witness ==
  /\ ReturnedResult
  /\ ret.underdog_close_to_flip
  /\ ret.flip_swing.v # 0
  /\ ret.underdog_prob.v < Scale \div 2
  /\ ret.underdog_prob.v >= 4000

\* C14.  Close-to-flip is stricter than underdog watch: in every
\* PredictionResult underdog_close_to_flip implies underdog_watch, and
\* underdog_watch is true exactly when underdog_reason is non-null.
C14_CloseToFlipImpliesWatch ==
  ReturnedResult =>
    /\ ret.underdog_close_to_flip => ret.underdog_watch
    /\ ret.underdog_watch <=> ret.underdog_reason # "None"

\* Close to flip before the 24th minute, hence on watch with a reason.
C14_Witness ==
  /\ ReturnedResult
  /\ ret.underdog_close_to_flip
  /\ ret.underdog_watch
  /\ ret.underdog_reason = "prob >= 40%"
  /\ ret.minutes_played < 24 * 60


----------------------------------------------------------------------------
\* The lead factor of a factor list (predict puts it first).
LeadFactor(factors) == FactorNamed(factors, "lead")

\* |-other / w_L| >= 0.999 for the factors of a result, w_L # 0: the weighted
\* sum of the other active advantages against 0.999 of the lead weight.
TargetOutOfReach(factors) ==
  Abs(SumContrib(factors, "lead")) >= 9990 * Abs(LeadFactor(factors).weight)

\* C15.  flip_lead_home is null whenever the lead factor is inactive or has
\* zero weight (pre-game), or the target lead advantage -other / w_L has
\* magnitude >= 0.999, or the blowout override applies; flip_swing is null
\* exactly when flip_lead_home is null and otherwise equals
\* flip_lead_home - (home_score - away_score).
C15_FlipLeadNullCases ==
  ReturnedResult =>
    /\ (\/ ~LeadFactor(ret.factors).active
        \/ LeadFactor(ret.factors).weight = 0
        \/ TargetOutOfReach(ret.factors)
        \/ ret.is_blowout) => ~ret.flip_lead_home.some
    /\ ret.flip_swing.some <=> ret.flip_lead_home.some
    /\ ret.flip_lead_home.some =>
         ret.flip_swing.v
           = ret.flip_lead_home.v
             - Scale * (args.game_state.home_score
                        - args.game_state.away_score)

\* A blowout whose lead factor is active and whose target is within reach:
\* the flip fields are null only because of the override.
C15_Witness ==
  /\ ReturnedResult
  /\ ret.is_blowout
  /\ LeadFactor(ret.factors).active
  /\ LeadFactor(ret.factors).weight # 0
  /\ ~TargetOutOfReach(ret.factors)
  /\ ~ret.flip_lead_home.some
  /\ ~ret.flip_swing.some


----------------------------------------------------------------------------
\* The Lead formula of calc_lead_advantage at a raw lead that need not be a
\* whole number of points (units of 1/Scale of a point):
\* tanh((lead - home_court_adjustment) / sqrt(minutes_remaining + 1)
\*      * lead_scale).
LeadAdvantageAt(raw_lead, minutes_remaining) ==
  LET adjusted_lead ==
        raw_lead - CONFIG.home_court_adjustment * (Scale \div 10)
  IN  tanh(RoundDiv(adjusted_lead * 6 * CONFIG.lead_scale,
                    SqrtMinutesPlusOne(minutes_remaining)))

\* The factors of a result with the lead advantage re-evaluated at the flip
\* lead; weights and all other factors as they are.
FactorsAtFlipLead(r) ==
  [i \in 1..Len(r.factors) |->
     IF r.factors[i].name = "lead"
     THEN [r.factors[i] EXCEPT
             !.advantage = LeadAdvantageAt(r.flip_lead_home.v,
                                           r.minutes_remaining)]
     ELSE r.factors[i]]

CombinedAtFlipLead(r) ==
  calc_combined_score(FactorsAtFlipLead(r), r.is_overtime)

\* The target lead advantage -other / w_L the solver aims at.
TargetLeadAdvantage(factors) ==
  RoundDiv(-SumContrib(factors, "lead"), LeadFactor(factors).weight)

\* C16.  The flip-lead solver inverts the Lead formula: for every
\* non-blowout result with a flip lead, the Lead formula at flip_lead_home
\* (same minutes_remaining) returns the target advantage -other / w_L, so
\* that the pipeline re-evaluated there (same normalized weights, other
\* factors fixed) gives combined score 0 and a win probability of 50% for
\* both teams.  Zero and 50% are met to the resolution of the arithmetic:
\* half a unit of advantage times the lead weight, plus one rounding, for
\* the score, and one unit for the probabilities when the lead weight is a
\* proper share in (0, 1].
C16_FlipLeadInvertsLeadFormula ==
  (ReturnedResult /\ ~ret.is_blowout /\ ret.flip_lead_home.some) =>
    LET lead == LeadFactor(ret.factors)
        probs == calc_win_probability(CombinedAtFlipLead(ret))
    IN  /\ LeadAdvantageAt(ret.flip_lead_home.v, ret.minutes_remaining)
             = TargetLeadAdvantage(ret.factors)
        /\ lead.wden * Abs(CombinedAtFlipLead(ret))
             <= Abs(lead.weight) + lead.wden
        /\ (lead.weight > 0 /\ lead.weight <= lead.wden) =>
             /\ ~probs.raised
             /\ Abs(probs.win_prob_home - Scale \div 2) <= 1
             /\ Abs(probs.win_prob_away - Scale \div 2) <= 1

\* A result far from even, in overtime, with a spread and an active
\* efficiency factor pulling against the lead, and a flip lead to solve for.
C16_Witness ==
  /\ ReturnedResult
  /\ ~ret.is_blowout
  /\ ret.flip_lead_home.some
  /\ ret.is_overtime
  /\ Abs(ret.combined_score) > 2000
  /\ Abs(ret.flip_swing.v) > 10 * Scale
  /\ LeadFactor(ret.factors).weight > 0
  /\ FactorNamed(ret.factors, "efficiency").active
  /\ FactorNamed(ret.factors, "spread").active
  /\ Abs(CombinedAtFlipLead(ret)) <= 1


----------------------------------------------------------------------------
\* The probabilities stand on the side of 1/2 that the combined score has
\* of 0.
SignFaithful(combined, win_prob_home, win_prob_away) ==
  /\ combined = 0 =>
       win_prob_home = Scale \div 2 /\ win_prob_away = Scale \div 2
  /\ combined > 0 =>
       win_prob_home > Scale \div 2 /\ Scale \div 2 > win_prob_away
  /\ combined < 0 =>
       win_prob_home < Scale \div 2 /\ Scale \div 2 < win_prob_away

\* C17.  calc_win_probability is sign-faithful: combined = 0 gives exactly
\* (0.5, 0.5); combined > 0 gives win_prob_home > 0.5 > win_prob_away;
\* combined < 0 gives win_prob_home < 0.5 < win_prob_away.
C17_WinProbabilitySignFaithful ==
  (fn = "calc_win_probability" /\ pc = "return") =>
    /\ ret.kind = "result"
    /\ SignFaithful(args.combined, ret.win_prob_home, ret.win_prob_away)


----------------------------------------------------------------------------
\* The weighted sum of the active advantages of a normalized factor list,
\* before any dampening.
UndampenedSum(factors) ==
  RoundDiv(SumContrib(factors, "-"), ActiveDen(factors))

\* C18.  is_overtime is true exactly when period > 4; in overtime
\* combined_score is 0.8 times the undampened weighted sum of the active
\* advantages, so its magnitude is strictly smaller than the undampened one
\* whenever that is non-zero; in regulation no dampening is applied.  (A sum
\* of one or two units of 0.0001 times 0.8 rounds back to itself at this
\* resolution, so strictness is read from three units up.)
C18_OvertimeDampens ==
  ReturnedResult =>
    LET u == UndampenedSum(ret.factors)
    IN  /\ ret.is_overtime <=> args.game_state.quarter > 4
        /\ ret.is_overtime =>
             /\ 2 * Abs(10 * ret.combined_score - 8 * u) <= 10
             /\ Sgn(ret.combined_score) = Sgn(u)
             /\ Abs(ret.combined_score) <= Abs(u)
             /\ Abs(u) >= 3 => Abs(ret.combined_score) < Abs(u)
        /\ ~ret.is_overtime => ret.combined_score = u

\* A second-overtime result whose undampened sum is far from 0 and whose
\* combined score is four fifths of it.
C18_Witness ==
  /\ ReturnedResult
  /\ args.game_state.quarter = 6
  /\ ret.is_overtime
  /\ UndampenedSum(ret.factors) < -1000
  /\ Abs(ret.combined_score) < Abs(UndampenedSum(ret.factors))
  /\ 2 * Abs(10 * ret.combined_score - 8 * UndampenedSum(ret.factors)) <= 10


----------------------------------------------------------------------------
\* C19.  Every FactorResult in a result of predict has its advantage in the
\* closed interval [-1, 1], for arbitrarily extreme scores, spreads and
\* box-score counts.
C19_AdvantagesBounded ==
  ReturnedResult =>
    \A i \in 1..Len(ret.factors) :
      /\ ret.factors[i].advantage >= -Scale
      /\ ret.factors[i].advantage <= Scale

\* A 100-point lead, a 30-point favorite and a box score of 200 made
\* threes out of 200 attempts, with all four factors in the result.
C19_Witness ==
  /\ ReturnedResult
  /\ args.game_state.home_score - args.game_state.away_score = 100
  /\ args.spread = Some(-60)
  /\ args.home_stats = ExtremeStats
  /\ Len(ret.factors) = 4
  /\ \A i \in 1..4 : ret.factors[i].active
  /\ LeadFactor(ret.factors).advantage > 9000
  /\ FactorNamed(ret.factors, "spread").advantage > 9000
  /\ FactorNamed(ret.factors, "efficiency").advantage > 9000


----------------------------------------------------------------------------
----------------------------------------------------------------------------
\* C21: the factors of every result are lead, spread, efficiency in this
\* order, with possession_edge as a fourth element exactly when
\* enable_possession_edge is set and the snapshot is not pre-game; for a
\* snapshot that is not pre-game lead and efficiency are active, and spread
\* is active exactly when a spread is supplied, a spread of 0 included.
C21_FactorsOrderedAndActive ==
  ReturnedResult =>
    LET factors == ret.factors
        in_game == ~PreGame(args.game_state)
        with_edge == args.enable_possession_edge /\ in_game
    IN  /\ Len(factors) = IF with_edge THEN 4 ELSE 3
        /\ factors[1].name = "lead"
        /\ factors[2].name = "spread"
        /\ factors[3].name = "efficiency"
        /\ with_edge => factors[4].name = "possession_edge"
        /\ in_game =>
             /\ factors[1].active
             /\ factors[3].active
             /\ factors[2].active <=> args.spread.some

\* A live snapshot with possession edge enabled and a pick'em spread: four
\* factors, the spread among the active ones.
C21_Witness ==
  /\ ReturnedResult
  /\ ~PreGame(args.game_state)
  /\ args.enable_possession_edge
  /\ args.spread = Some(0)
  /\ Len(ret.factors) = 4
  /\ ret.factors[2].active

----------------------------------------------------------------------------
\* The classifier and the factor calculators called on their own.

Str_00_00 == << "0", "0", ":", "0", "0" >>

\* Status strings of a game record: the two the pipeline tells apart and two
\* that only resemble 'Final'.
UnitStatusSet == { "In Progress", "Final", "final", "Halftime" }

GameStatusArgs ==
  { [status |-> st, period |-> p, clock |-> c] :
      st \in UnitStatusSet, p \in 0..MaxPeriod,
      c \in ClockSet \cup { Str_00_00 } }

\* Minutes played, in seconds: before tip-off of a clock beyond the period,
\* every whole minute of regulation and of MaxPeriod - 4 overtimes, and the
\* seconds next to the gates.
MaxMinutesPlayed == 48 + 5 * (MaxPeriod - 4)

UnitMinutesSet ==
  { 60 * m : m \in -1..MaxMinutesPlayed }
    \cup { 60 * m - 1 : m \in { 18, 24, 48 } }

LeadAdvantageArgs ==
  { [home_score |-> sc[1], away_score |-> sc[2],
     minutes_remaining |-> Max(0, 48 * 60 - mp), minutes_played |-> mp] :
      sc \in { <<0, 0>>, <<87, 82>>, <<70, 100>> }, mp \in UnitMinutesSet }

\* Box scores with 29.88, 30, 39.88 and 40 possessions.
Poss_29_88 == TeamStats(12, 29, 2, 2, 0, 0)

Poss_30 == TeamStats(12, 30, 2, 0, 0, 0)

Poss_39_88 == TeamStats(18, 39, 3, 2, 4, 4)

Poss_40 == TeamStats(18, 40, 3, 0, 6, 6)

GateStatsSet ==
  { ZeroStats, Poss_29_88, Poss_30, Poss_39_88, Poss_40, AvgStats }

GateMinutesSet ==
  { 0, 18 * 60 - 1, 18 * 60, 24 * 60 - 1, 24 * 60, 48 * 60, 53 * 60 }

EfficiencyArgs ==
  { [home_stats |-> h, away_stats |-> a, home_season |-> LeagueAverage,
     away_season |-> LeagueAverage, minutes_played |-> mp] :
      h \in GateStatsSet, a \in GateStatsSet, mp \in GateMinutesSet }

PossessionEdgeArgs ==
  { [home_stats |-> h, away_stats |-> a, minutes_played |-> mp] :
      h \in GateStatsSet, a \in GateStatsSet, mp \in GateMinutesSet }

UnitsInit ==
  /\ pc = "call"
  /\ ret = Pending
  /\ \/ fn = "get_game_status" /\ args \in GameStatusArgs
     \/ fn = "calc_lead_advantage" /\ args \in LeadAdvantageArgs
     \/ fn = "calc_efficiency_advantage" /\ args \in EfficiencyArgs
     \/ fn = "calc_possession_edge_advantage" /\ args \in PossessionEdgeArgs

GetGameStatus ==
  /\ fn = "get_game_status"
  /\ pc = "call"
  /\ ret' = [kind |-> "result",
             game_status |-> get_game_status(args.status, args.period,
                                             args.clock)]
  /\ pc' = "return"
  /\ UNCHANGED << fn, args >>

CalcLeadAdvantage ==
  /\ fn = "calc_lead_advantage"
  /\ pc = "call"
  /\ ret' = [kind |-> "result",
             factor |-> calc_lead_advantage(args.home_score, args.away_score,
                                            args.minutes_remaining,
                                            args.minutes_played)]
  /\ pc' = "return"
  /\ UNCHANGED << fn, args >>

CalcEfficiencyAdvantage ==
  /\ fn = "calc_efficiency_advantage"
  /\ pc = "call"
  /\ ret' = [kind |-> "result",
             factor |-> calc_efficiency_advantage(
                          args.home_stats, args.away_stats, args.home_season,
                          args.away_season, args.minutes_played)]
  /\ pc' = "return"
  /\ UNCHANGED << fn, args >>

CalcPossessionEdgeAdvantage ==
  /\ fn = "calc_possession_edge_advantage"
  /\ pc = "call"
  /\ ret' = [kind |-> "result",
             factor |-> calc_possession_edge_advantage(
                          args.home_stats, args.away_stats,
                          args.minutes_played)]
  /\ pc' = "return"
  /\ UNCHANGED << fn, args >>

UnitsNext ==
  \/ GetGameStatus
  \/ CalcLeadAdvantage
  \/ CalcEfficiencyAdvantage
  \/ CalcPossessionEdgeAdvantage

SpecUnits == UnitsInit /\ [][UnitsNext]_vars

Returned(name) == fn = name /\ pc = "return"

----------------------------------------------------------------------------
\* C22: get_game_status classifies by priority: status 'Final' is 'final'
\* whatever the period and clock; otherwise period 0 or an absent clock is
\* 'pre_game'; otherwise clock '0:00' is 'between_quarters' in period 1 or 3
\* and 'halftime' in period 2; every other case, '0:00' in period 4 or in
\* overtime included, is 'in_progress'.
C22_GameStatusByPriority ==
  Returned("get_game_status") =>
    LET final == args.status = "Final"
        pre_game == args.period = 0 \/ args.clock = NoClock
        at_zero == args.clock = ZeroClock
    IN  /\ final => ret.game_status = "final"
        /\ (~final /\ pre_game) => ret.game_status = "pre_game"
        /\ (~final /\ ~pre_game /\ at_zero /\ args.period \in {1, 3})
             => ret.game_status = "between_quarters"
        /\ (~final /\ ~pre_game /\ at_zero /\ args.period = 2)
             => ret.game_status = "halftime"
        /\ (~final /\ ~pre_game /\ ~(at_zero /\ args.period \in {1, 2, 3}))
             => ret.game_status = "in_progress"

\* A finished game whose record has period 0 and no clock is 'final'.
C22_Witness ==
  /\ Returned("get_game_status")
  /\ args.status = "Final"
  /\ args.period = 0
  /\ args.clock = NoClock
  /\ ret.game_status = "final"

----------------------------------------------------------------------------
\* C23: for minutes_played >= 0 the weight of the lead factor before
\* normalization is lead_weight_min + (lead_weight_max - lead_weight_min)
\* * min(1, minutes_played / 48); it lies within [lead_weight_min,
\* lead_weight_max], does not decrease as minutes_played grows, and equals
\* lead_weight_max from 48 minutes on, all of overtime included.
C23_LeadWeightRamp ==
  (Returned("calc_lead_advantage") /\ args.minutes_played >= 0) =>
    LET weight == ret.factor.weight
        progress == Min(48 * 60, args.minutes_played)
    IN  /\ ret.factor.wden = WDen
        \* (weight - min) = (max - min) * progress, over 48 minutes
        /\ (weight - W(CONFIG.lead_weight_min)) * (48 * 60)
             = W(CONFIG.lead_weight_max - CONFIG.lead_weight_min) * progress
        /\ weight >= W(CONFIG.lead_weight_min)
        /\ weight <= W(CONFIG.lead_weight_max)
        /\ args.minutes_played >= 48 * 60 => weight = W(CONFIG.lead_weight_max)
        /\ \A later \in UnitMinutesSet :
             later >= args.minutes_played =>
               calc_lead_advantage(args.home_score, args.away_score,
                                   args.minutes_remaining, later).weight
                 >= weight

\* A call in overtime (53 minutes played) carries lead_weight_max, and a call
\* at 24 minutes carries the midpoint.
C23_Witness ==
  /\ Returned("calc_lead_advantage")
  /\ args.minutes_played = 53 * 60
  /\ ret.factor.weight = W(CONFIG.lead_weight_max)
  /\ calc_lead_advantage(0, 0, 24 * 60, 24 * 60).weight
       = (W(CONFIG.lead_weight_min) + W(CONFIG.lead_weight_max)) \div 2

----------------------------------------------------------------------------
\* min(home_poss, away_poss) of a call, in hundredths of a possession.
MinPossessions(a) ==
  Min(calc_possessions(a.home_stats.fga, a.home_stats.fta, a.home_stats.tov,
                       a.home_stats.orb),
      calc_possessions(a.away_stats.fga, a.away_stats.fta, a.away_stats.tov,
                       a.away_stats.orb))

\* The factor carries the full weight ungated exactly when both thresholds
\* are met, and otherwise the gated weight, gated and still active.
FollowsGate(factor, a, gate_minutes, gate_poss, weight_full, weight_gated) ==
  LET open == /\ a.minutes_played >= gate_minutes * 60
              /\ MinPossessions(a) >= gate_poss * 100
  IN  /\ factor.wden = WDen
      /\ factor.active
      /\ (factor.weight = W(weight_full) /\ factor.gated = "False") <=> open
      /\ ~open => factor.weight = W(weight_gated) /\ factor.gated = "True"

\* C24: the efficiency factor carries efficiency_weight_full with gated =
\* false exactly when minutes_played >= efficiency_gate_minutes (18) and
\* min(home_poss, away_poss) >= efficiency_gate_poss (30), and otherwise
\* efficiency_weight_gated with gated = true, still active; the possession
\* edge factor follows the same rule with its own thresholds (24 minutes, 40
\* possessions) and weights.
C24_GatesFollowThresholds ==
  /\ Returned("calc_efficiency_advantage") =>
       /\ ret.factor.name = "efficiency"
       /\ FollowsGate(ret.factor, args, CONFIG.efficiency_gate_minutes,
                      CONFIG.efficiency_gate_poss,
                      CONFIG.efficiency_weight_full,
                      CONFIG.efficiency_weight_gated)
  /\ Returned("calc_possession_edge_advantage") =>
       /\ ret.factor.name = "possession_edge"
       /\ FollowsGate(ret.factor, args, CONFIG.possession_edge_gate_minutes,
                      CONFIG.possession_edge_gate_poss,
                      CONFIG.possession_edge_weight_full,
                      CONFIG.possession_edge_weight_gated)

\* At 18 minutes with 30 and 39.88 possessions the possession edge is gated
\* where the efficiency factor is not.
C24_Witness ==
  /\ Returned("calc_possession_edge_advantage")
  /\ args.minutes_played = 18 * 60
  /\ args.home_stats = Poss_30
  /\ args.away_stats = Poss_39_88
  /\ ret.factor.gated = "True"
  /\ calc_efficiency_advantage(args.home_stats, args.away_stats,
                               LeagueAverage, LeagueAverage,
                               args.minutes_played).gated = "False"

----------------------------------------------------------------------------
\* The factor favors the team that trails in snapshot gs: its advantage
\* points to that team by at least trailing_edge_factor_threshold.
FavorsTrailing(factor, gs) ==
  /\ factor.active
  /\ gs.home_score # gs.away_score
  /\ factor.advantage * (IF gs.home_score > gs.away_score THEN -1 ELSE 1)
       >= CONFIG.trailing_edge_factor_threshold

\* C28: in every result of predict with trailing_edge_alert set, at least
\* two of the active factors other than lead (spread, efficiency,
\* possession_edge) favor the trailing team; with a raw margin of 3 or more
\* the lead factor has the sign of the raw lead and never favors the
\* trailing team; hence without a spread and with possession edge disabled
\* trailing_edge_alert is false for every snapshot.
C28_AlertNeedsTwoNonLeadFactors ==
  ReturnedResult =>
    LET gs == args.game_state
        factors == ret.factors
        lead == factors[1]
        others == {i \in 2..Len(factors) : FavorsTrailing(factors[i], gs)}
    IN  /\ ret.trailing_edge_alert => Cardinality(others) >= 2
        /\ (lead.active /\ RawMargin(gs) >= CONFIG.trailing_edge_min_margin)
             => /\ Sgn(lead.advantage) = Sgn(gs.home_score - gs.away_score)
                /\ ~FavorsTrailing(lead, gs)
        /\ (~args.spread.some /\ ~args.enable_possession_edge)
             => ~ret.trailing_edge_alert

\* An alert raised by exactly two factors other than lead, in a game where
\* the lead factor is active.
C28_Witness ==
  /\ ReturnedResult
  /\ ret.trailing_edge_alert
  /\ ret.factors[1].active
  /\ Cardinality({i \in 2..Len(ret.factors) :
                    FavorsTrailing(ret.factors[i], args.game_state)}) = 2

----------------------------------------------------------------------------
\* The gates of the underdog watch pass for result r of a call with data age
\* data_age_sec.
WatchGatesPass(r, data_age_sec) ==
  /\ r.underdog_team # "None"
  /\ ~r.is_blowout
  /\ r.minutes_played >= CONFIG.upset_min_minutes * 60
  /\ data_age_sec < CONFIG.stale_warning_sec

\* Both probabilities lie within [0.45, 0.55].
NearEven(win_prob_home, win_prob_away) ==
  /\ win_prob_home >= 4500 /\ win_prob_home <= 5500
  /\ win_prob_away >= 4500 /\ win_prob_away <= 5500

\* C29: under the default configuration predict never reports the reason
\* 'near 50%': whenever the gates pass and |combined_score| <= 0.08 both
\* win probabilities lie within [0.45, 0.55], so the underdog's probability
\* is at least 0.40 and the reason is 'prob >= 40%'; the only reasons
\* predict reports are 'prob >= 40%', 'trailing edge' and none.
C29_NeverNearFiftyReason ==
  /\ ReturnedResult =>
       /\ ret.underdog_reason \in {"prob >= 40%", "trailing edge", "None"}
       /\ (/\ WatchGatesPass(ret, args.data_age_sec)
           /\ Abs(ret.combined_score) <= CONFIG.upset_flip_buffer_threshold)
            => /\ NearEven(ret.win_prob_home, ret.win_prob_away)
               /\ ret.underdog_prob.v >= CONFIG.upset_win_prob_threshold
               /\ ret.underdog_reason = "prob >= 40%"
  /\ (/\ fn = "calc_win_probability" /\ pc = "return"
      /\ Abs(args.combined) <= CONFIG.upset_flip_buffer_threshold)
       => /\ ret.kind = "result"
          /\ NearEven(ret.win_prob_home, ret.win_prob_away)

\* The gates pass, the combined score is within 0.08 of even, the underdog
\* is below 50%, and the reason reported is 'prob >= 40%'.
C29_Witness ==
  /\ ReturnedResult
  /\ WatchGatesPass(ret, args.data_age_sec)
  /\ Abs(ret.combined_score) <= CONFIG.upset_flip_buffer_threshold
  /\ ret.underdog_prob.v < Scale \div 2
  /\ ret.underdog_reason = "prob >= 40%"

----------------------------------------------------------------------------
\* The factor list the pipeline of predict builds for call a, normalized,
\* before any override.
PipelineFactors(a) ==
  LET gs == a.game_state
      parsed == ClockOrDefault(gs.clock)
      tv == calc_time_values(gs.quarter, parsed.minutes, parsed.seconds)
      in_game == get_game_status(gs.status, gs.quarter, gs.clock) # "pre_game"
      lead_factor ==
        IF in_game
        THEN calc_lead_advantage(gs.home_score, gs.away_score,
                                 tv.minutes_remaining, tv.minutes_played)
        ELSE FactorResult("lead", 0, 0, FALSE, "None")
      efficiency_factor ==
        IF in_game
        THEN calc_efficiency_advantage(a.home_stats, a.away_stats,
                                       a.home_season, a.away_season,
                                       tv.minutes_played)
        ELSE FactorResult("efficiency", 0, 0, FALSE, "None")
      possession_edge ==
        IF in_game /\ a.enable_possession_edge
        THEN << calc_possession_edge_advantage(a.home_stats, a.away_stats,
                                               tv.minutes_played) >>
        ELSE << >>
  IN  normalize_weights(<< lead_factor, calc_spread_advantage(a.spread),
                           efficiency_factor >> \o possession_edge)

\* C30: the blowout override changes only win_prob_home, win_prob_away,
\* flip_lead_home, flip_swing and the underdog fields derived from them:
\* combined_score, the factors with their normalized weights, confidence,
\* trailing_team and trailing_edge_alert of a blowout result are what the
\* pipeline computes without the override.
C30_BlowoutOverrideFrame ==
  (ReturnedResult /\ ret.is_blowout) =>
    LET gs == args.game_state
        factors == PipelineFactors(args)
        trailing == check_trailing_edge(gs.home_score, gs.away_score, factors)
    IN  /\ ret.factors = factors
        /\ ret.combined_score = calc_combined_score(factors, gs.quarter > 4)
        /\ ret.confidence
             = calc_confidence(factors, args.data_age_sec, ret.minutes_played,
                               args.spread.some)
        /\ ret.trailing_team = trailing.trailing_team
        /\ ret.trailing_edge_alert = trailing.show_alert

\* A blowout whose override replaced the probabilities of the pipeline while
\* the confidence stayed Low and the trailing team stayed named.
C30_Witness ==
  /\ ReturnedResult
  /\ ret.is_blowout
  /\ ret.win_prob_home
       # calc_win_probability(ret.combined_score).win_prob_home
  /\ ret.confidence = "Low"
  /\ ret.trailing_team # "None"
  /\ ret.factors[1].active

----------------------------------------------------------------------------
\* RateLimiter (data_fetcher.py), driven by a single caller.  Time is counted
\* in ticks of 0.1 s, the margin wait_if_needed adds to its sleep.  Here args
\* holds the limiter object (self), the wall clock (time) and the local now;
\* ret holds what the caller can observe: every timestamp ever recorded and
\* whether the call in progress slept; pc is the statement reached.

TicksPerSec == 10

MaxRequests == 2

MaxWindowSec == 1

\* The last tick at which a call may start.
MaxTime == 14

RateLimiter(max_requests, window_sec) ==
  [max_requests |-> max_requests, window_sec |-> window_sec,
   requests |-> << >>]

\* [t for t in self.requests if now - t < self.window_sec]
RequestsInWindow(requests, now, window_sec) ==
  SelectSeq(requests, LAMBDA t : now - t < window_sec * TicksPerSec)

\* A plausible slip: the limit is compared with > instead of >=.
LimitReached_exclusive(self) == Len(self.requests) > self.max_requests

\* len(self.requests) >= self.max_requests
LimitReached(self) == Len(self.requests) >= self.max_requests

LimiterInit ==
  /\ fn = "wait_if_needed"
  /\ pc = "idle"
  /\ \E n \in 1..MaxRequests, w \in 1..MaxWindowSec :
       args = [self |-> RateLimiter(n, w), time |-> 0, now |-> 0]
  /\ ret = [kind |-> "pending", recorded |-> << >>, slept |-> FALSE]

\* Time passes between two calls, and between the statements of a call.
Elapse ==
  /\ fn = "wait_if_needed"
  /\ pc \in {"idle", "append"}
  /\ args.time < MaxTime
  /\ args' = [args EXCEPT !.time = @ + 1]
  /\ UNCHANGED << fn, ret, pc >>

\* Lines 39-43: read the clock, drop the old timestamps, test the limit.
WaitIfNeededEnter ==
  /\ fn = "wait_if_needed"
  /\ pc = "idle"
  /\ args.time < MaxTime
  /\ LET now == args.time
         kept == RequestsInWindow(args.self.requests, now,
                                  args.self.window_sec)
     IN  /\ args' = [args EXCEPT !.now = now, !.self.requests = kept]
         /\ pc' = IF LimitReached([args.self EXCEPT !.requests = kept])
                  THEN "sleep" ELSE "append"
  /\ ret' = [ret EXCEPT !.slept = FALSE]
  /\ UNCHANGED fn

\* Lines 44-47: sleep until the oldest timestamp has left the window, plus
\* 0.1 s; time.sleep may return late, never early.
WaitIfNeededSleep ==
  /\ fn = "wait_if_needed"
  /\ pc = "sleep"
  /\ LET oldest == args.self.requests[1]
         sleep_time == args.self.window_sec * TicksPerSec
                       - (args.now - oldest) + 1
     IN  IF sleep_time > 0
         THEN /\ \E late \in 0..1 :
                   args' = [args EXCEPT !.time = @ + sleep_time + late]
              /\ ret' = [ret EXCEPT !.slept = TRUE]
         ELSE UNCHANGED << args, ret >>
  /\ pc' = "append"
  /\ UNCHANGED fn

\* Line 49: self.requests.append(time.time())
WaitIfNeededAppend ==
  /\ fn = "wait_if_needed"
  /\ pc = "append"
  /\ args' = [args EXCEPT !.self.requests = Append(@, args.time)]
  /\ ret' = [ret EXCEPT !.kind = "returned",
                        !.recorded = Append(@, args.time)]
  /\ pc' = "idle"
  /\ UNCHANGED fn

LimiterNext ==
  \/ Elapse
  \/ WaitIfNeededEnter
  \/ WaitIfNeededSleep
  \/ WaitIfNeededAppend

SpecLimiter == LimiterInit /\ [][LimiterNext]_vars

\* The timestamps recorded so far that lie inside the window of the call in
\* progress.
RecordedInWindow ==
  SelectSeq(ret.recorded,
            LAMBDA t : args.now - t < args.self.window_sec * TicksPerSec)

\* C27: for any sequence of wait_if_needed calls by a single caller, at most
\* max_requests of the recorded timestamps fall inside any interval shorter
\* than window_sec; a call made while fewer than max_requests timestamps lie
\* inside the window does not sleep; and timestamps older than the window
\* are dropped from the record on the next call.
C27_RateLimiterWindow ==
  fn = "wait_if_needed" =>
    LET recorded == ret.recorded
        n == args.self.max_requests
        window == args.self.window_sec * TicksPerSec
    IN  \* timestamps n apart in the record are at least a window apart
        /\ \A i \in 1..Len(recorded) :
             i + n <= Len(recorded) => recorded[i + n] - recorded[i] >= window
        /\ (pc = "sleep" \/ (pc = "append" /\ ret.slept))
             => Len(RecordedInWindow) >= n
        /\ pc \in {"sleep", "append"}
             => args.self.requests = RecordedInWindow

\* A call that slept because max_requests timestamps lay inside its window,
\* after an earlier call had dropped a timestamp older than the window.
C27_Witness ==
  /\ fn = "wait_if_needed"
  /\ pc = "append"
  /\ ret.slept
  /\ Len(ret.recorded) > Len(args.self.requests)
  /\ Len(args.self.requests) = args.self.max_requests

----------------------------------------------------------------------------
\* BallDontLieClient._request (data_fetcher.py).  Here args holds the client
\* (self, with its errors list, one APIError code per entry), the loop
\* variable attempt and the number of calls made; ret holds what the call in
\* progress has done so far: its rate-limiter waits, the outcome of each
\* HTTP attempt in order, the length of self.errors when it started, and
\* the value returned; pc is the statement reached.  A status is written as
\* a string; a 200 response is one whose body response.json() decodes.

ApiConfig ==
  [api_max_retries |-> 3, api_retry_backoff_ms |-> 500,
   poll_interval_sec |-> 30]

\* What session.get can do: a response with a status code, or a
\* requests.RequestException.
OutcomeSet == { "200", "429", "404", "500", "RequestException" }

\* _request is called at most MaxCalls times on one client.
MaxCalls == 2

\* A plausible slip: server errors (5xx) are retried like a 429.
AfterAttempt_retry_server_errors(outcome, attempt) ==
  IF outcome = "200" THEN [do |-> "return_body", error |-> << >>]
  ELSE IF outcome \in {"429", "500"} THEN [do |-> "retry", error |-> << >>]
  ELSE IF outcome = "RequestException"
  THEN [do |-> IF attempt < ApiConfig.api_max_retries - 1
               THEN "retry" ELSE "return_none",
        error |-> << "0" >>]
  ELSE [do |-> "return_none", error |-> << outcome >>]

\* Lines 77-104: what the attempt numbered `attempt` does after `outcome`,
\* and the APIError code it appends to self.errors, if any.
AfterAttempt(outcome, attempt) ==
  IF outcome = "200" THEN [do |-> "return_body", error |-> << >>]
  ELSE IF outcome = "429" THEN [do |-> "retry", error |-> << >>]
  ELSE IF outcome = "RequestException"
  THEN [do |-> IF attempt < ApiConfig.api_max_retries - 1
               THEN "retry" ELSE "return_none",
        error |-> << "0" >>]
  ELSE [do |-> "return_none", error |-> << outcome >>]

RequestInit ==
  /\ fn = "_request"
  /\ pc = "idle"
  /\ args = [self |-> [errors |-> << >>], attempt |-> 0, calls |-> 0]
  /\ ret = [kind |-> "pending", waits |-> 0, outcomes |-> << >>,
            errors_before |-> 0, value |-> "None"]

\* Lines 67-71: a call starts and enters the loop.
RequestCall ==
  /\ fn = "_request"
  /\ pc \in {"idle", "done"}
  /\ args.calls < MaxCalls
  /\ args' = [args EXCEPT !.attempt = 0, !.calls = @ + 1]
  /\ ret' = [kind |-> "pending", waits |-> 0, outcomes |-> << >>,
             errors_before |-> Len(args.self.errors), value |-> "None"]
  /\ pc' = "loop"
  /\ UNCHANGED fn

\* Line 72: the next iteration starts with self.rate_limiter.wait_if_needed().
RequestWait ==
  /\ fn = "_request"
  /\ pc = "loop"
  /\ args.attempt < ApiConfig.api_max_retries
  /\ ret' = [ret EXCEPT !.waits = @ + 1]
  /\ pc' = "get"
  /\ UNCHANGED << fn, args >>

\* Lines 75-104: one HTTP attempt and what follows from its outcome.
RequestAttempt ==
  /\ fn = "_request"
  /\ pc = "get"
  /\ \E outcome \in OutcomeSet :
       LET after == AfterAttempt(outcome, args.attempt)
       IN  /\ args' = [args EXCEPT !.self.errors = @ \o after.error]
           /\ ret' = [ret EXCEPT
                        !.outcomes = Append(@, outcome),
                        !.kind = IF after.do = "retry" THEN "pending"
                                 ELSE "returned",
                        !.value = IF after.do = "return_body" THEN "body"
                                  ELSE "None"]
           /\ pc' = IF after.do = "retry" THEN "backoff" ELSE "done"
  /\ UNCHANGED fn

\* Lines 81-83 and 101-103: time.sleep(backoff); continue.
RequestBackoff ==
  /\ fn = "_request"
  /\ pc = "backoff"
  /\ args' = [args EXCEPT !.attempt = @ + 1]
  /\ pc' = "loop"
  /\ UNCHANGED << fn, ret >>

\* Line 106: the loop is exhausted.
RequestExhausted ==
  /\ fn = "_request"
  /\ pc = "loop"
  /\ args.attempt >= ApiConfig.api_max_retries
  /\ ret' = [ret EXCEPT !.kind = "returned", !.value = "None"]
  /\ pc' = "done"
  /\ UNCHANGED << fn, args >>

RequestNext ==
  \/ RequestCall
  \/ RequestWait
  \/ RequestAttempt
  \/ RequestBackoff
  \/ RequestExhausted

SpecRequest == RequestInit /\ [][RequestNext]_vars

\* The errors the call in progress has appended to self.errors.
ErrorsOfCall ==
  SubSeq(args.self.errors, ret.errors_before + 1, Len(args.self.errors))

\* C26: _request follows a bounded retry protocol: a call makes at most
\* api_max_retries (3) HTTP attempts; every attempt is preceded by a
\* rate-limiter wait; a retry happens only after a 429 response or a request
\* exception; a 200 response returns the body at once; and any other status
\* ends the call at once with None, recording exactly one APIError, which
\* carries that status.
C26_BoundedRetryProtocol ==
  fn = "_request" =>
    LET outcomes == ret.outcomes
        attempts == Len(outcomes)
        failures == SelectSeq(outcomes, LAMBDA o : o \notin {"200", "429"})
    IN  /\ attempts <= 3
        /\ ret.waits = attempts + (IF pc = "get" THEN 1 ELSE 0)
        /\ \A i \in 1..(attempts - 1) :
             outcomes[i] \in {"429", "RequestException"}
        /\ (attempts > 0 /\ outcomes[attempts] = "200")
             => pc = "done" /\ ret.kind = "returned" /\ ret.value = "body"
        /\ (attempts > 0
            /\ outcomes[attempts] \notin {"200", "429", "RequestException"})
             => /\ pc = "done" /\ ret.kind = "returned" /\ ret.value = "None"
                /\ Len(ErrorsOfCall) = Len(failures)
                /\ ErrorsOfCall[Len(ErrorsOfCall)] = outcomes[attempts]
        /\ ret.value = "body" => outcomes[attempts] = "200"

\* The second call on a client: a 429, then a request exception, then a 500
\* on the third attempt, which ends the call with None.
C26_Witness ==
  /\ fn = "_request"
  /\ pc = "done"
  /\ args.calls = 2
  /\ ret.outcomes = << "429", "RequestException", "500" >>
  /\ ret.waits = 3
  /\ ret.value = "None"
  /\ ErrorsOfCall = << "0", "500" >>

----------------------------------------------------------------------------
\* analyze_game (main.py).  Here args holds the arguments (poll) and the
\* local data of the loop, the value of the last fetch; ret holds what the
\* caller can observe: how the call ended, the fetches and sleeps so far and
\* the game statuses predict was invoked on; pc is the statement reached.

Str_124_01 == << "1", "2", "4", ":", "0", "1" >>

\* fetch_game_data returned None.
NoData == [some |-> FALSE]

\* What fetch_game_data may return for one game: before tip-off without a
\* line, live with and without a line, at a break, at the half, final, and a
\* record whose clock is far beyond the period.
PollSnapshot(home_score, away_score, quarter, clock, status, spread) ==
  [some |-> TRUE,
   game_state |-> GameState(home_score, away_score, quarter, clock, status),
   home_stats |-> ZeroStats, away_stats |-> ZeroStats,
   home_season |-> LeagueAverage, away_season |-> LeagueAverage,
   spread |-> spread]

PollSnapshotSet ==
  { PollSnapshot(0, 0, 0, NoClock, "Scheduled", None),
    PollSnapshot(0, 0, 0, NoClock, "Scheduled", Some(-4)),
    PollSnapshot(30, 25, 1, ZeroClock, "In Progress", None),
    PollSnapshot(50, 49, 2, ZeroClock, "In Progress", Some(-4)),
    PollSnapshot(87, 82, 3, Str_4_32, "In Progress", None),
    PollSnapshot(87, 82, 3, Str_4_32, "In Progress", Some(-4)),
    PollSnapshot(70, 100, 1, Str_124_01, "In Progress", None),
    PollSnapshot(101, 99, 4, ZeroClock, "In Progress", None),
    PollSnapshot(101, 99, 4, ZeroClock, "Final", None) }

\* The loop fetches at most MaxFetches times.
MaxFetches == 3

\* get_game_status of fetched data.
StatusOf(data) ==
  get_game_status(data.game_state.status, data.game_state.quarter,
                  data.game_state.clock)

\* Lines 117-126: predict on fetched data; data age as right after a fetch.
PredictionOf(data, poll) ==
  predict(data.game_state, data.home_stats, data.away_stats,
          data.home_season, data.away_season, data.spread, 45, poll)

PollInit ==
  /\ fn = "analyze_game"
  /\ pc = "fetch"
  /\ \E poll \in BOOLEAN : args = [poll |-> poll, data |-> NoData]
  /\ ret = [kind |-> "pending", fetches |-> 0, sleeps |-> 0,
            predicted |-> {}]

\* Line 55: data = fetcher.fetch_game_data(game_id)
FetchGameData ==
  /\ fn = "analyze_game"
  /\ pc = "fetch"
  /\ ret.fetches < MaxFetches
  /\ \E data \in PollSnapshotSet \cup { NoData } :
       args' = [args EXCEPT !.data = data]
  /\ ret' = [ret EXCEPT !.fetches = @ + 1]
  /\ pc' = "status"
  /\ UNCHANGED fn

\* What every branch that does not end the game does: sleep and fetch again
\* when polling, return otherwise.
SleepOrReturn ==
  IF args.poll
  THEN /\ pc' = "sleep"
       /\ ret' = ret
  ELSE /\ pc' = "returned"
       /\ ret' = [ret EXCEPT !.kind = "returned"]

\* Lines 57-114: a failed fetch, a final game, halftime and a break between
\* quarters are handled without a prediction.
CheckStatus ==
  /\ fn = "analyze_game"
  /\ pc = "status"
  /\ IF ~args.data.some THEN SleepOrReturn
     ELSE IF StatusOf(args.data) = "final"
     THEN /\ pc' = "returned"
          /\ ret' = [ret EXCEPT !.kind = "returned"]
     ELSE IF StatusOf(args.data) \in {"halftime", "between_quarters"}
     THEN SleepOrReturn
     ELSE /\ pc' = "predict"
          /\ ret' = ret
  /\ UNCHANGED << fn, args >>

\* Lines 128-177: where analyze_game goes after predict: an exception leaves
\* the function; otherwise the result, or its absence, is displayed and the
\* loop sleeps when polling and returns when not.
AfterPrediction(kind, poll) ==
  IF kind = "raised" THEN "raised"
  ELSE IF poll THEN "sleep"
  ELSE "returned"

\* Lines 117-177: predict, then display and log; an exception of predict
\* leaves analyze_game, which has no handler for it.
RunPrediction ==
  /\ fn = "analyze_game"
  /\ pc = "predict"
  /\ pc' = AfterPrediction(PredictionOf(args.data, args.poll).kind, args.poll)
  /\ ret' = [ret EXCEPT
               !.kind = IF pc' = "sleep" THEN "pending" ELSE pc',
               !.predicted = @ \cup { StatusOf(args.data) }]
  /\ UNCHANGED << fn, args >>

\* time.sleep(CONFIG["poll_interval_sec"]), then the next iteration.
PollSleep ==
  /\ fn = "analyze_game"
  /\ pc = "sleep"
  /\ ret' = [ret EXCEPT !.sleeps = @ + 1]
  /\ pc' = "fetch"
  /\ UNCHANGED << fn, args >>

PollNext ==
  \/ FetchGameData
  \/ CheckStatus
  \/ RunPrediction
  \/ PollSleep

SpecPoll == PollInit /\ [][PollNext]_vars

\* C25, first part: with poll = true analyze_game keeps polling until a
\* fetched snapshot has status 'final': it stops only after such a snapshot,
\* and a failed fetch, halftime, a break between quarters and an absent
\* prediction each lead to a sleep and another fetch.
C25_PollingStopsOnlyOnFinal ==
  (fn = "analyze_game" /\ args.poll /\ pc \in {"returned", "raised"}) =>
    /\ args.data.some
    /\ StatusOf(args.data) = "final"

====
